---- MODULE Spec2Model ----
(***************************************************************************)
(* A model of docker2homeassistant (d2ha): the MQTT synchronizer of        *)
(* d2ha/mqtt/manager.py, the preference store of                           *)
(* d2ha/services/preferences.py and the update classifier of               *)
(* d2ha/services/docker.py.                                                *)
(*                                                                         *)
(* Text the code works on character by character (lower-casing,           *)
(* slugifying, splitting) is a sequence of one-character strings, so that  *)
(* those functions are computed the way the code computes them; text the   *)
(* code only concatenates and compares (topics, ids) is a string.          *)
(***************************************************************************)
EXTENDS Integers, Sequences, FiniteSets, TLC

VARIABLES
    mqtt_client,          \* MqttManager.mqtt_client: TRUE when a client object is held
    setup_done,           \* whether app.py has run mqtt_manager.setup()
    container_slug_map,   \* MqttManager.container_slug_map: slug -> engine id
    pref_data,            \* AutodiscoveryPreferences._data: stable_id -> record
    pref_global,          \* AutodiscoveryPreferences._global
    pref_doc,             \* the document at AutodiscoveryPreferences.path: <<>> when
                          \* there is no file, else <<what the last _save wrote>>
    pass_ran,             \* the last step ran publish_autodiscovery_and_state with a client
    pass_log,             \* the publish attempts of the last step, in order
    pre_map,              \* container_slug_map as the last step's pass found it
    cur_slugs,            \* current_slugs of the most recent pass
    prev_slugs,           \* <<current_slugs>> of the pass before it, <<>> if none
    skipped_self,         \* names the most recent pass skipped as the self-container
    synced,               \* a pass has run with a client held
    last_msg,             \* topic of the message the last step handled, <<>> if none
    calls,                \* calls the last step made into the docker service
    collected,            \* the last step's full_update_all: what its first collect
                          \* returned and what came of the recreates, of the
                          \* refresh and of the second collect; <<>> if none
    now,                  \* time.time(), in seconds
    update_preferences,   \* DockerService.update_preferences: container id -> record
    remote_cache,         \* DockerService.remote_cache: image reference -> remote info
    remote_cache_ts,      \* DockerService.remote_cache_ts: image reference -> seconds
    upd_op,               \* the update query the last step ran, "" if none
    upd_out,              \* the entries that query returned, in order
    github_release_cache,     \* DockerService.github_release_cache: repo -> releases
    github_release_cache_ts,  \* DockerService.github_release_cache_ts: repo -> seconds
    notes_out,            \* the last _fetch_remote_info of the release-notes steps
    engine_up,            \* the engine answers docker_client.containers.list
    engine_fleet,         \* the names of the containers the engine has, in order
    overview_cache,       \* DockerService.overview_cache
    overview_cache_ts,    \* DockerService.overview_cache_ts
    overview_thread,      \* DockerService._overview_thread: a thread, 0 for None
    refresher_pc,         \* each overview_refresher thread: "none", "run" or "sleep"
    caller_pc,            \* each caller of start_overview_refresher: "idle" or "checked"
    publisher_pc,         \* the mqtt_publisher thread: "none", "run" or "sleep"
    refreshed,            \* a refresh_overview_cache has completed
    fleet_out,            \* what the last step of the fleet cache did and returned
    engine_containers,    \* the ids of the containers the engine has
    engine_created,       \* how many containers the engine has created
    write_out,            \* what the last destructive action did and reported
    publish_history,      \* MqttManager.publish_history, oldest record first; it is
                          \* followed in SpecHistory, one _publish at a time
    publish_clock,        \* datetime.now(), counted in calls of _publish
    history_out,          \* what the last step of the publish history did
    pref_out,             \* what the last call of the preference store did
    stable_id_out,        \* the last call of build_stable_id and what it returned
    engine_networks,      \* the ids of the networks the engine has
    network_out,          \* what the last remove_network did and raised
    uptime_out,           \* the last call of format_timedelta and what it returned
    broker_retained,      \* the broker: topic -> the retained payload it keeps
    pass_pc,              \* each thread's place in publish_autodiscovery_and_state
    pass_view,            \* <<the view the last pass of SpecAlone was handed>>
    pref_lock,            \* AutodiscoveryPreferences._lock: the thread holding it, "" if none
    pref_thread,          \* each thread's call of a mutator of the store and its place in it
    refresh_thread,       \* each thread's place in refresh_overview_cache and what it queried
    query_count,          \* the engine queries of SpecRefresh made so far
    cache_query,          \* the number and the time of the query overview_cache came from
    topic_out,            \* the last command topic advertised and how _on_message took it
    stable_pair_out,      \* two entries of a view and the stable ids build_stable_id gave them
    broker_reachable,     \* a connect to the configured broker would succeed
    mqtt_config,          \* <<>> until setup() has run, then <<what it found configured>>
    pass_count,           \* the passes of SpecConnect made so far
    connect_out           \* what the last step of SpecConnect did

sync_vars == <<mqtt_client, setup_done, container_slug_map, pref_data, pref_global,
               pref_doc,
               pass_ran, pass_log, pre_map, cur_slugs, prev_slugs, skipped_self,
               synced, last_msg, calls, collected>>

upd_vars == <<now, update_preferences, remote_cache, remote_cache_ts, upd_op, upd_out>>

notes_vars == <<github_release_cache, github_release_cache_ts, notes_out>>

fleet_vars == <<engine_up, engine_fleet, overview_cache, overview_cache_ts,
                overview_thread, refresher_pc, caller_pc, publisher_pc, refreshed,
                fleet_out>>

write_vars == <<engine_containers, engine_created, write_out>>

hist_vars == <<publish_history, publish_clock, history_out>>

prefs_vars == <<pref_out>>

ids_vars == <<stable_id_out>>

net_vars == <<engine_networks, network_out>>

side_vars == <<write_vars, hist_vars, prefs_vars, ids_vars, net_vars>>

overlap_vars == <<broker_retained, pass_pc>>

lock_vars == <<pref_lock, pref_thread>>

refresh_vars == <<refresh_thread, query_count, cache_query>>

connect_vars == <<broker_reachable, mqtt_config, pass_count, connect_out>>

ext_vars == <<uptime_out, overlap_vars, pass_view, lock_vars, refresh_vars, topic_out,
              stable_pair_out, connect_vars>>

\* what the steps of the preference store alone leave as it is
prefs_rest == <<mqtt_client, setup_done, container_slug_map, pass_ran, pass_log, pre_map,
                cur_slugs, prev_slugs, skipped_self, synced, last_msg, calls, collected,
                upd_vars, notes_vars, fleet_vars, write_vars, hist_vars, ids_vars,
                net_vars, ext_vars>>

vars == <<sync_vars, upd_vars, notes_vars, fleet_vars, side_vars, ext_vars>>

----------------------------------------------------------------------------
(* Characters and the string primitives of Python the code relies on.      *)

LowerLetters == {"a","b","c","d","e","f","g","h","i","j","k","l","m",
                 "n","o","p","q","r","s","t","u","v","w","x","y","z"}

Digits == {"0","1","2","3","4","5","6","7","8","9"}

\* str.lower() on the upper-case letters
LowerMap == [A |-> "a", B |-> "b", C |-> "c", D |-> "d", E |-> "e", F |-> "f",
             G |-> "g", H |-> "h", I |-> "i", J |-> "j", K |-> "k", L |-> "l",
             M |-> "m", N |-> "n", O |-> "o", P |-> "p", Q |-> "q", R |-> "r",
             S |-> "s", T |-> "t", U |-> "u", V |-> "v", W |-> "w", X |-> "x",
             Y |-> "y", Z |-> "z"]

ToLower(ch) == IF ch \in DOMAIN LowerMap THEN LowerMap[ch] ELSE ch

\* LATIN CAPITAL LETTER I WITH DOT ABOVE, a letter outside ASCII, and
\* COMBINING DOT ABOVE, a mark: each is one character
DottedI == "U+0130"

CombiningDot == "U+0307"

\* the characters str.upper() leaves as they are and str.lower() does not
UpperLetters == (DOMAIN LowerMap) \cup {DottedI}

\* ch.lower() for one character: a string, of two characters for DottedI
ChLower(ch) == IF ch = DottedI THEN <<"i", CombiningDot>> ELSE <<ToLower(ch)>>

\* ch.isalnum(): letters and digits, not marks
IsAlnum(ch) == ch \in LowerLetters \cup Digits \cup UpperLetters

\* s.lower()
RECURSIVE Lower(_)
Lower(s) == IF s = <<>> THEN <<>> ELSE ChLower(s[1]) \o Lower(Tail(s))

\* str.strip(ch)
Strip(s, ch) ==
    LET keep == {i \in 1..Len(s) : s[i] # ch}
    IN  IF keep = {} THEN <<>>
        ELSE LET lo == CHOOSE i \in keep : \A j \in keep : i <= j
                 hi == CHOOSE i \in keep : \A j \in keep : j <= i
             IN  SubSeq(s, lo, hi)

\* str.split(d): the pieces between occurrences of d, empty pieces kept
RECURSIVE SplitOn(_, _)
SplitOn(s, d) ==
    LET hits == {i \in 1..Len(s) : s[i] = d}
    IN  IF hits = {} THEN <<s>>
        ELSE LET k == CHOOSE i \in hits : \A j \in hits : i <= j
             IN  <<SubSeq(s, 1, k - 1)>> \o SplitOn(SubSeq(s, k + 1, Len(s)), d)

\* "a/b/c": the segments joined with "/"
RECURSIVE JoinSlash(_)
JoinSlash(segs) ==
    IF Len(segs) = 0 THEN <<>>
    ELSE IF Len(segs) = 1 THEN segs[1]
    ELSE segs[1] \o <<"/">> \o JoinSlash(Tail(segs))

\* str.replace("__", "_"): non-overlapping occurrences, left to right
RECURSIVE ReplaceDouble(_)
ReplaceDouble(s) ==
    IF Len(s) < 2 THEN s
    ELSE IF s[1] = "_" /\ s[2] = "_"
         THEN <<"_">> \o ReplaceDouble(SubSeq(s, 3, Len(s)))
         ELSE <<s[1]>> \o ReplaceDouble(Tail(s))

HasDouble(s) == \E i \in 1..(Len(s) - 1) : s[i] = "_" /\ s[i + 1] = "_"

\* while "__" in slug: slug = slug.replace("__", "_")
RECURSIVE CollapseDouble(_)
CollapseDouble(s) == IF HasDouble(s) THEN CollapseDouble(ReplaceDouble(s)) ELSE s

\* re.split(r"[./:_-]+", name) with the empty parts dropped: the maximal runs
\* of characters that are none of . / : _ -
NameSeparators == {".", "/", ":", "_", "-"}

NameParts(s) ==
    {SubSeq(s, i, j) : <<i, j>> \in
        {p \in (1..Len(s)) \X (1..Len(s)) :
            /\ p[1] <= p[2]
            /\ \A k \in p[1]..p[2] : s[k] \notin NameSeparators
            /\ (p[1] = 1 \/ s[p[1] - 1] \in NameSeparators)
            /\ (p[2] = Len(s) \/ s[p[2] + 1] \in NameSeparators)}}


\* a sequence of characters as one piece of text
RECURSIVE Str(_)
Str(s) == IF Len(s) = 0 THEN "" ELSE s[1] \o Str(Tail(s))

----------------------------------------------------------------------------
(* services/utils.py                                                       *)

Text_container == <<"c","o","n","t","a","i","n","e","r">>

Text_no_stack == <<"n","o","_","s","t","a","c","k">>

\* "".join(c.lower() if c.isalnum() else "_" for c in text)
RECURSIVE Sanitize(_)
Sanitize(text) ==
    IF text = <<>> THEN <<>>
    ELSE (IF IsAlnum(text[1]) THEN ChLower(text[1]) ELSE <<"_">>) \o Sanitize(Tail(text))

slugify_container(name, short_id) ==
    LET stripped == Strip(Sanitize(name), "_")
        base == IF stripped = <<>> THEN Text_container ELSE stripped
    IN  base \o <<"_">> \o short_id

\* container_info.get("stack") / .get("name") are <<>> when missing or empty
build_stable_id(stack_in, name_in) ==
    LET stack == IF stack_in = <<>> THEN Text_no_stack ELSE stack_in
        name == IF name_in = <<>> THEN Text_container ELSE name_in
        base == stack \o <<"_", "_">> \o name
    IN  Strip(CollapseDouble(Sanitize(base)), "_")

----------------------------------------------------------------------------
(* Configuration of the MqttManager (app.py reads it from the environment). *)

node_id_chars == <<"h","a","n","o","d","e">>

base_topic_chars == <<"d","2","h">>

discovery_prefix_chars == <<"h","a">>

node_id == Str(node_id_chars)

base_topic == Str(base_topic_chars)

discovery_prefix == Str(discovery_prefix_chars)

----------------------------------------------------------------------------
(* The fleet views collect_containers_info_for_updates can hand to a pass.  *)

\* Engine ids one container name can go through (a recreated container gets
\* a new id): generation g of a container
MaxGen == 2

ContainerNames == [web |-> <<"w","e","b">>,
                   db |-> <<"D","2","h","a","x",".","D","b">>,
                   alias |-> <<"d","2","h","a">>,
                   node |-> <<"H","a","N","o","d","e">>,
                   topic |-> <<"m","y","-","d","2","h">>]

\* DockerService._get_stack_name: the compose project, else "_no_stack"
StackOf(key) == IF key = "web" THEN <<"a","p","p">> ELSE <<"_">> \o Text_no_stack

IdLetter == [web |-> "a", db |-> "b", alias |-> "c", node |-> "d", topic |-> "e"]

GenDigit(g) == <<"1", "2", "3", "4", "5", "6", "7", "8", "9">>[g]

\* docker-py's Container.short_id is a prefix of Container.id
ShortIdOf(key, g) == <<IdLetter[key], GenDigit(g)>>

EngineIdOf(key, g) == Str(ShortIdOf(key, g)) \o "f0"

\* One entry of the list collect_containers_info_for_updates returns
ContainerInfo(key, g, upd) ==
    [id |-> EngineIdOf(key, g),
     short_id |-> ShortIdOf(key, g),
     name |-> ContainerNames[key],
     stack |-> StackOf(key),
     stable_id |-> Str(build_stable_id(StackOf(key), ContainerNames[key])),
     update_state |-> upd]

\* the containers that are the application itself, under the three names
\* _is_self_container knows it by
OwnKeys == {"alias", "node", "topic"}

\* The list is sorted by (stack, name.lower()): "_no_stack" sorts before
\* "app", and within it "d2ha" < "d2hax.db" < "hanode" < "my-d2h"
SortOrder == <<"alias", "db", "node", "topic", "web">>

\* The classifier's verdict for a container: the application's own image
\* always has a newer release, avail holds the other containers with a newer
\* remote image, and db's registry is not reachable when it is not among them
UpdateOf(avail, key) ==
    IF key \in OwnKeys \cup avail THEN "update_available"
    ELSE IF key = "db" THEN "unknown"
    ELSE "up_to_date"

\* gens[key] = 0: that container is not in the engine
RECURSIVE ViewFrom(_, _, _)
ViewFrom(gens, avail, i) ==
    IF i > Len(SortOrder) THEN <<>>
    ELSE LET key == SortOrder[i]
         IN  (IF gens[key] = 0 THEN <<>>
              ELSE <<ContainerInfo(key, gens[key], UpdateOf(avail, key))>>)
             \o ViewFrom(gens, avail, i + 1)

\* The engine states the model draws views from: web in any generation or
\* absent, db present or absent, the application's own containers (under
\* their three names) all present, or an engine with no container at all
GenChoices ==
    {g \in [DOMAIN ContainerNames -> 0..MaxGen] :
        /\ g["db"] <= 1
        /\ \A k \in OwnKeys : g[k] <= 1 /\ g[k] = g["alias"]
        /\ g["alias"] = 0 => g["web"] = 0 /\ g["db"] = 0}

\* the containers with a newer remote image, apart from the application's own
AvailChoices == {{}, {"web"}, {"db"}, {"db", "web"}}

ViewTable == [g \in GenChoices, a \in AvailChoices |-> ViewFrom(g, a, 1)]

Views == {ViewTable[g, a] : g \in GenChoices, a \in AvailChoices}

----------------------------------------------------------------------------
(* services/preferences.py: dicts are functions; a missing key is a key     *)
(* outside the DOMAIN.                                                      *)

EmptyDict == <<>>

DictGet(d, k, default) == IF k \in DOMAIN d THEN d[k] ELSE default

\* AutodiscoveryPreferences.AVAILABLE_ACTIONS
AVAILABLE_ACTIONS == {"start", "pause", "stop", "restart", "delete", "full_update"}

DEFAULT_GLOBAL_PREFERENCES ==
    [delete_unused_images |-> TRUE, updates_overview |-> TRUE, full_update_all |-> TRUE]

\* apply_defaults with the actions a record does not name switched off
apply_defaults_actions_off(entry) ==
    LET actions_raw == DictGet(entry, "actions", EmptyDict)
    IN  [state |-> DictGet(entry, "state", TRUE),
         actions |-> [a \in AVAILABLE_ACTIONS |-> DictGet(actions_raw, a, FALSE)]]

apply_defaults(entry) ==
    LET actions_raw == DictGet(entry, "actions", EmptyDict)
    IN  [state |-> DictGet(entry, "state", TRUE),
         actions |-> [a \in AVAILABLE_ACTIONS |-> DictGet(actions_raw, a, TRUE)]]

apply_global_defaults(entry) ==
    [key \in DOMAIN DEFAULT_GLOBAL_PREFERENCES |->
        DictGet(entry, key, DEFAULT_GLOBAL_PREFERENCES[key])]

\* a read that returns what is stored
get_stored_or_empty(data, stable_id) == DictGet(data, stable_id, EmptyDict)

\* get_with_defaults(stable_id)
get_with_defaults(data, stable_id) ==
    apply_defaults(DictGet(data, stable_id, EmptyDict))

get_global_preferences(global) == apply_global_defaults(global)

\* build_map_for(stable_ids)
build_map_for(data, stable_ids) == [sid \in stable_ids |-> get_with_defaults(data, sid)]

\* _save: json.dump of the two sections; the keys are strings and the values
\* booleans, which json.load gives back as they were
save(data, global) == [containers |-> data, global |-> global]

\* _load of the document, on a store that __init__ has set to no entries and
\* the default global preferences
load(doc) ==
    IF doc = <<>>
    THEN [data |-> EmptyDict, global |-> DEFAULT_GLOBAL_PREFERENCES]
    ELSE LET raw == doc[1]
             \* raw.get("containers") or raw
             containers_raw == IF raw.containers # EmptyDict THEN raw.containers ELSE raw
         IN  [data |-> [k \in DOMAIN containers_raw |-> apply_defaults(containers_raw[k])],
              global |-> apply_global_defaults(raw.global)]

\* set_preferences(stable_id, state_enabled, actions)
set_preferences(data, global, stable_id, state_enabled, actions) ==
    LET pref == apply_defaults([state |-> state_enabled, actions |-> actions])
        stored == (stable_id :> pref) @@ data
    IN  [data |-> stored, doc |-> <<save(stored, global)>>, value |-> pref]

\* set_global_preferences(preferences)
set_global_preferences(data, preferences) ==
    LET prefs == apply_global_defaults(preferences)
    IN  [global |-> prefs, doc |-> <<save(data, prefs)>>, value |-> prefs]

\* prune that saves whatever it removed
prune_always_saves(data, valid_ids) ==
    [data |-> [sid \in (DOMAIN data) \cap valid_ids |-> data[sid]], saved |-> TRUE]

\* prune(valid_ids): the ids outside valid_ids popped, and _save if any was
prune(data, valid_ids) ==
    LET removed == (DOMAIN data) \ valid_ids
    IN  [data |-> [sid \in (DOMAIN data) \ removed |-> data[sid]],
         saved |-> removed # {}]

----------------------------------------------------------------------------
(* mqtt/manager.py: topics and publishes.                                   *)

\* json.dumps of a discovery payload: never the empty string. The fields a
\* hub acts on are kept.
JsonPayload(kind, command_topic, unique_id) ==
    [empty |-> FALSE, kind |-> kind, command_topic |-> command_topic,
     unique_id |-> unique_id]

\* a state or attributes payload: the engine's status text, a count, a JSON
\* object; none of them is the empty string
TextPayload(kind) ==
    [empty |-> FALSE, kind |-> kind, command_topic |-> "", unique_id |-> ""]

\* the payload ""
EmptyPayload ==
    [empty |-> TRUE, kind |-> "", command_topic |-> "", unique_id |-> ""]

\* One call self._publish(topic, payload, qos=..., retain=...)
Pub(topic, payload, qos, retain) ==
    [topic |-> topic, payload |-> payload, qos |-> qos, retain |-> retain]

\* _publish_delete_unused_images_button
publish_delete_unused_images_button(enabled) ==
    LET btn_config_topic ==
            discovery_prefix \o "/button/" \o node_id
                \o "/docker_delete_unused_images/config"
        cmd_topic == base_topic \o "/docker/set/delete_unused_images"
    IN  IF enabled
        THEN <<Pub(btn_config_topic,
                   JsonPayload("config", cmd_topic, "d2ha_delete_unused_images"), 0, TRUE)>>
        ELSE <<Pub(btn_config_topic, EmptyPayload, 0, TRUE)>>

\* _publish_updates_overview clearing the config topic only
publish_updates_overview_config_only(enabled) ==
    LET sensor_config_topic ==
            discovery_prefix \o "/sensor/" \o node_id \o "/docker_updates/config"
        state_topic == base_topic \o "/docker/updates/state"
        attr_topic == base_topic \o "/docker/updates/attributes"
    IN  IF enabled
        THEN <<Pub(sensor_config_topic, JsonPayload("config", "", "d2ha_docker_updates"),
                   0, TRUE),
               Pub(state_topic, TextPayload("state"), 0, TRUE),
               Pub(attr_topic, TextPayload("attributes"), 0, TRUE)>>
        ELSE <<Pub(sensor_config_topic, EmptyPayload, 0, TRUE)>>

\* _publish_updates_overview
publish_updates_overview(enabled) ==
    LET sensor_config_topic ==
            discovery_prefix \o "/sensor/" \o node_id \o "/docker_updates/config"
        state_topic == base_topic \o "/docker/updates/state"
        attr_topic == base_topic \o "/docker/updates/attributes"
    IN  IF enabled
        THEN <<Pub(sensor_config_topic, JsonPayload("config", "", "d2ha_docker_updates"),
                   0, TRUE),
               Pub(state_topic, TextPayload("state"), 0, TRUE),
               Pub(attr_topic, TextPayload("attributes"), 0, TRUE)>>
        ELSE <<Pub(sensor_config_topic, EmptyPayload, 0, TRUE),
               Pub(state_topic, EmptyPayload, 0, TRUE),
               Pub(attr_topic, EmptyPayload, 0, TRUE)>>

\* _publish_full_update_all_button
publish_full_update_all_button(enabled) ==
    LET btn_config_topic ==
            discovery_prefix \o "/button/" \o node_id \o "/docker_full_update_all/config"
        cmd_topic == base_topic \o "/docker/set/full_update_all"
    IN  IF enabled
        THEN <<Pub(btn_config_topic,
                   JsonPayload("config", cmd_topic, "d2ha_full_update_all"), 0, TRUE)>>
        ELSE <<Pub(btn_config_topic, EmptyPayload, 0, TRUE)>>

\* _publish_docker_status: the engine sensor, then the three gated entities
publish_docker_status(global_preferences) ==
    LET state_topic == base_topic \o "/docker/state"
        attr_topic == base_topic \o "/docker/attributes"
        config_topic ==
            discovery_prefix \o "/binary_sensor/" \o node_id \o "/docker_status/config"
    IN  <<Pub(config_topic, JsonPayload("config", "", "d2ha_docker_status"), 0, TRUE),
          Pub(state_topic, TextPayload("state"), 0, TRUE),
          Pub(attr_topic, TextPayload("attributes"), 0, TRUE)>>
        \o publish_delete_unused_images_button(
               DictGet(global_preferences, "delete_unused_images", TRUE))
        \o publish_updates_overview(DictGet(global_preferences, "updates_overview", TRUE))
        \o publish_full_update_all_button(
               DictGet(global_preferences, "full_update_all", TRUE))

\* _clear_state_topics
clear_state_topics(slug) ==
    LET state_topic == base_topic \o "/" \o slug \o "/state"
        attr_topic == base_topic \o "/" \o slug \o "/attributes"
        sensor_config_topic ==
            discovery_prefix \o "/sensor/" \o node_id \o "/" \o slug \o "_status/config"
    IN  <<Pub(sensor_config_topic, EmptyPayload, 0, TRUE),
          Pub(state_topic, EmptyPayload, 0, TRUE),
          Pub(attr_topic, EmptyPayload, 0, TRUE)>>

\* _clear_action_button clearing the button's command topic instead
clear_action_button_command_topic(slug, action) ==
    <<Pub(base_topic \o "/" \o slug \o "/set/" \o action, EmptyPayload, 0, TRUE)>>

\* _clear_action_button
clear_action_button(slug, action) ==
    LET btn_config_topic ==
            discovery_prefix \o "/button/" \o node_id \o "/" \o slug \o "_" \o action
                \o "/config"
    IN  <<Pub(btn_config_topic, EmptyPayload, 0, TRUE)>>

Text_d2ha_server == <<"d","2","h","a","_","s","e","r","v","e","r">>

Text_d2ha == <<"d","2","h","a">>

\* _is_self_container without the split of the name into tokens
is_self_container_exact(name_in) ==
    LET name == Lower(name_in)
        known_identifiers ==
            {Lower(node_id_chars), Lower(base_topic_chars), Text_d2ha_server, Text_d2ha}
                \ {<<>>}
    IN  IF name = <<>> THEN FALSE ELSE name \in known_identifiers

\* _is_self_container
is_self_container(name_in) ==
    LET name == Lower(name_in)
        known_identifiers ==
            {Lower(node_id_chars), Lower(base_topic_chars), Text_d2ha_server, Text_d2ha}
                \ {<<>>}
    IN  IF name = <<>> THEN FALSE
        ELSE IF name \in known_identifiers THEN TRUE
        ELSE \E part \in NameParts(name) : part \in known_identifiers

\* The three functions above on the containers of the model, each computed
\* once: slugify_container(c["name"], c["short_id"]), build_stable_id(c) and
\* _is_self_container(c)
slug_of ==
    [p \in {<<ContainerNames[k], ShortIdOf(k, g)>> :
                k \in DOMAIN ContainerNames, g \in 1..MaxGen} |->
        Str(slugify_container(p[1], p[2]))]

stable_id_of ==
    [p \in {<<StackOf(k), ContainerNames[k]>> : k \in DOMAIN ContainerNames} |->
        Str(build_stable_id(p[1], p[2]))]

is_self ==
    [n \in {ContainerNames[k] : k \in DOMAIN ContainerNames} |-> is_self_container(n)]

\* _publish_discovery_for_container, after container_slug_map[slug] = c["id"]:
\* the publishes it makes, in order
publish_discovery_for_container(c, preferences) ==
    LET slug == slug_of[<<c.name, c.short_id>>]
        stable_id == stable_id_of[<<c.stack, c.name>>]
        state_topic == base_topic \o "/" \o slug \o "/state"
        attr_topic == base_topic \o "/" \o slug \o "/attributes"
        sensor_config_topic ==
            discovery_prefix \o "/sensor/" \o node_id \o "/" \o slug \o "_status/config"
        sensor ==
            IF DictGet(preferences, "state", TRUE)
            THEN <<Pub(sensor_config_topic,
                       JsonPayload("config", "", "d2ha_" \o stable_id \o "_status"),
                       0, TRUE),
                   Pub(state_topic, TextPayload("state"), 0, TRUE),
                   Pub(attr_topic, TextPayload("attributes"), 0, TRUE)>>
            ELSE clear_state_topics(slug)
        actions_pref == DictGet(preferences, "actions", EmptyDict)
        button(action) ==
            IF DictGet(actions_pref, action, TRUE)
            THEN LET btn_config_topic ==
                         discovery_prefix \o "/button/" \o node_id \o "/" \o slug \o "_"
                             \o action \o "/config"
                     cmd_topic == base_topic \o "/" \o slug \o "/set/" \o action
                 IN  <<Pub(btn_config_topic,
                           JsonPayload("config", cmd_topic,
                                       "d2ha_" \o stable_id \o "_" \o action),
                           0, TRUE)>>
            ELSE clear_action_button(slug, action)
    IN  sensor \o button("start") \o button("pause") \o button("stop")
               \o button("restart") \o button("delete") \o button("full_update")

\* A try block of the pass: the publishes it makes when nothing raises, and
\* the part of the pass it belongs to
Block(pubs, phase) == [pubs |-> pubs, phase |-> phase]

\* _publish inside one try block, the n attempts before it already made: the
\* publishes are attempted in order and every attempt is recorded
\* (_record_publish runs in the finally clause); an attempt whose number is in
\* faults has the transport raise, which ends the block
AttemptsOfBlock(block, n, faults) ==
    LET raising == {i \in 1..Len(block.pubs) : n + i \in faults}
    IN  IF raising = {} THEN Len(block.pubs)
        ELSE CHOOSE i \in raising : \A j \in raising : i <= j

RECURSIVE RunBlocks(_, _, _, _)
RunBlocks(blocks, b, n, faults) ==
    IF b > Len(blocks) THEN <<>>
    ELSE LET count == AttemptsOfBlock(blocks[b], n, faults)
         IN  [i \in 1..count |->
                 [topic |-> blocks[b].pubs[i].topic,
                  payload |-> blocks[b].pubs[i].payload,
                  qos |-> blocks[b].pubs[i].qos,
                  retain |-> blocks[b].pubs[i].retain,
                  raised |-> (n + i \in faults),
                  phase |-> blocks[b].phase]]
             \o RunBlocks(blocks, b + 1, n + count, faults)

\* publish_autodiscovery_and_state, the loop over containers_info: the entries
\* it does not skip
NotSelf(view) == {i \in 1..Len(view) : ~is_self[view[i].name]}

\* current_slugs after the loop
current_slugs(view) ==
    {slug_of[<<view[i].name, view[i].short_id>>] : i \in NotSelf(view)}

\* the names the loop skipped
SkippedNames(view) == {view[i].name : i \in (1..Len(view)) \ NotSelf(view)}

\* container_slug_map after the loop: every entry not skipped has stored
\* container_slug_map[slug] = c["id"], a later entry over an earlier one
MapAfterLoop(view, map) ==
    LET slug(i) == slug_of[<<view[i].name, view[i].short_id>>]
        last(s) == CHOOSE i \in NotSelf(view) :
                       /\ slug(i) = s
                       /\ \A j \in NotSelf(view) : slug(j) = s => j <= i
    IN  [s \in (DOMAIN map) \cup current_slugs(view) |->
            IF s \in current_slugs(view) THEN view[last(s)].id ELSE map[s]]

\* the try blocks of the loop, one per entry not skipped
RECURSIVE ContainerBlocks(_, _, _)
ContainerBlocks(view, i, data) ==
    IF i > Len(view) THEN <<>>
    ELSE (IF is_self[view[i].name] THEN <<>>
          ELSE <<Block(publish_discovery_for_container(
                           view[i], get_with_defaults(data, view[i].stable_id)),
                       "container")>>)
         \o ContainerBlocks(view, i + 1, data)

\* stale_slugs without the subtraction of current_slugs
stale_slugs_all_keys(view, map) == DOMAIN MapAfterLoop(view, map)

\* stale_slugs = set(self.container_slug_map.keys()) - current_slugs
stale_slugs(view, map) == (DOMAIN MapAfterLoop(view, map)) \ current_slugs(view)

\* the clearing of one stale slug with the last action of the tuple left out
StaleBlocks_five_buttons(stale_slug) ==
    LET state_topic == base_topic \o "/" \o stale_slug \o "/state"
        attr_topic == base_topic \o "/" \o stale_slug \o "/attributes"
        sensor_config_topic ==
            discovery_prefix \o "/sensor/" \o node_id \o "/" \o stale_slug
                \o "_status/config"
        btn(action) ==
            Block(<<Pub(discovery_prefix \o "/button/" \o node_id \o "/" \o stale_slug
                            \o "_" \o action \o "/config",
                        EmptyPayload, 0, TRUE)>>, "stale")
    IN  <<Block(<<Pub(sensor_config_topic, EmptyPayload, 0, TRUE),
                  Pub(state_topic, EmptyPayload, 0, TRUE),
                  Pub(attr_topic, EmptyPayload, 0, TRUE)>>, "stale"),
          btn("start"), btn("pause"), btn("stop"), btn("restart"), btn("delete")>>

\* the clearing of one stale slug: the three sensor topics in one try block,
\* then each of the six button topics in a try block of its own
StaleBlocks(stale_slug) ==
    LET state_topic == base_topic \o "/" \o stale_slug \o "/state"
        attr_topic == base_topic \o "/" \o stale_slug \o "/attributes"
        sensor_config_topic ==
            discovery_prefix \o "/sensor/" \o node_id \o "/" \o stale_slug
                \o "_status/config"
        btn(action) ==
            Block(<<Pub(discovery_prefix \o "/button/" \o node_id \o "/" \o stale_slug
                            \o "_" \o action \o "/config",
                        EmptyPayload, 0, TRUE)>>, "stale")
    IN  <<Block(<<Pub(sensor_config_topic, EmptyPayload, 0, TRUE),
                  Pub(state_topic, EmptyPayload, 0, TRUE),
                  Pub(attr_topic, EmptyPayload, 0, TRUE)>>, "stale"),
          btn("start"), btn("pause"), btn("stop"), btn("restart"), btn("delete"),
          btn("full_update")>>

\* the loop over stale_slugs, a set: Python walks it in an order of its own
RECURSIVE StaleLoopBlocks(_, _)
StaleLoopBlocks(order, i) ==
    IF i > Len(order) THEN <<>>
    ELSE StaleBlocks(order[i]) \o StaleLoopBlocks(order, i + 1)

Orders(S) ==
    {f \in [1..Cardinality(S) -> S] : \A i, j \in 1..Cardinality(S) : f[i] = f[j] => i = j}

\* the pass with the stale slugs cleared before the loop over containers_info
PassLog_stale_first(view, data, global, faults, order) ==
    RunBlocks(<<Block(publish_docker_status(get_global_preferences(global)), "global")>>
                  \o StaleLoopBlocks(order, 1)
                  \o ContainerBlocks(view, 1, data),
              1, 0, faults)

\* publish_autodiscovery_and_state with a client held: the publish attempts
\* of the whole pass, the stale set walked in the order given
PassLog(view, data, global, faults, order) ==
    RunBlocks(<<Block(publish_docker_status(get_global_preferences(global)), "global")>>
                  \o ContainerBlocks(view, 1, data)
                  \o StaleLoopBlocks(order, 1),
              1, 0, faults)

\* the pass without the pop of the stale slugs
MapAfterPass_keeps_stale(view, map) == MapAfterLoop(view, map)

\* container_slug_map when the pass returns: every stale slug popped
MapAfterPass(view, map) ==
    LET after == MapAfterLoop(view, map)
    IN  [s \in (DOMAIN after) \ stale_slugs(view, map) |-> after[s]]

----------------------------------------------------------------------------
(* mqtt/manager.py: inbound commands.                                       *)

\* One call into the DockerService
Call(op, id, action) == [op |-> op, id |-> id, action |-> action]

\* the dispatch without the check that the slug map knows the slug: the slug
\* is taken for the container's name
dispatch_unmapped_slug(map, slug, action) ==
    LET container_id == DictGet(map, slug, slug)
    IN  IF action \in {"start", "stop", "restart", "pause", "unpause"}
        THEN <<Call("apply_simple_action", container_id, action)>>
        ELSE IF action = "delete"
             THEN <<Call("remove_container", container_id, "")>>
        ELSE IF action = "full_update"
             THEN <<Call("recreate_container_with_latest_image", container_id, "")>>
        ELSE <<>>

\* the dispatch without the full_update branch
dispatch_without_full_update(map, slug, action) ==
    LET container_id == DictGet(map, slug, "")
    IN  IF container_id = "" THEN <<>>
        ELSE IF action \in {"start", "stop", "restart", "pause", "unpause"}
             THEN <<Call("apply_simple_action", container_id, action)>>
        ELSE IF action = "delete"
             THEN <<Call("remove_container", container_id, "")>>
        ELSE <<>>

\* _on_message, the part after the two fleet-wide commands: the calls made
\* for <slug>/set/<action> with the slug map as it is
dispatch_container_command(map, slug, action) ==
    LET container_id == DictGet(map, slug, "")
    IN  IF container_id = "" THEN <<>>
        ELSE IF action \in {"start", "stop", "restart", "pause", "unpause"}
             THEN <<Call("apply_simple_action", container_id, action)>>
        ELSE IF action = "delete"
             THEN <<Call("remove_container", container_id, "")>>
        ELSE IF action = "full_update"
             THEN <<Call("recreate_container_with_latest_image", container_id, "")>>
        ELSE <<>>

Text_set == <<"s","e","t">>

\* _on_message of a manager configured with the base topic given, up to the
\* choice of the handler: "ignored", "delete_unused_images",
\* "full_update_all" or "container" with its slug and action
on_message_route(configured, topic) ==
    LET parts == SplitOn(topic, "/")
    IN  IF Len(parts) < 4 THEN [kind |-> "ignored", slug |-> "", action |-> ""]
        ELSE IF parts[1] # configured \/ parts[3] # Text_set
             THEN [kind |-> "ignored", slug |-> "", action |-> ""]
        ELSE LET slug == Str(parts[2])
                 action == Str(Lower(parts[4]))
             IN  IF slug = "docker" /\ action = "delete_unused_images"
                 THEN [kind |-> "delete_unused_images", slug |-> slug, action |-> action]
                 ELSE IF slug = "docker" /\ action = "full_update_all"
                 THEN [kind |-> "full_update_all", slug |-> slug, action |-> action]
                 ELSE [kind |-> "container", slug |-> slug, action |-> action]

\* _on_message of the manager of the model
route_message(topic) == on_message_route(base_topic_chars, topic)

\* the loop without the test for the self-container
full_update_calls_with_self(view, i) ==
    LET Due(c) == c.update_state = "update_available" /\ c.id # ""
        due == SelectSeq(SubSeq(view, i, Len(view)), Due)
    IN  [j \in 1..Len(due) |->
            Call("recreate_container_with_latest_image", due[j].id, "")]

\* _full_update_all_containers, the loop: one recreate call per container of
\* the collected view that is not the self-container and has an update
RECURSIVE full_update_calls(_, _)
full_update_calls(view, i) ==
    IF i > Len(view) THEN <<>>
    ELSE LET c == view[i]
         IN  (IF is_self[c.name] THEN <<>>
              ELSE IF c.update_state # "update_available" THEN <<>>
              ELSE IF c.id = "" THEN <<>>
              ELSE <<Call("recreate_container_with_latest_image", c.id, "")>>)
             \o full_update_calls(view, i + 1)

----------------------------------------------------------------------------
(* The inputs the model draws from.                                         *)

WebStableId == stable_id_of[<<StackOf("web"), ContainerNames["web"]>>]

DbStableId == stable_id_of[<<StackOf("db"), ContainerNames["db"]>>]

\* the stable ids preferences are set for: db's are never set
StableIds == {WebStableId}

\* (state_enabled, actions) arguments of set_preferences: the sensor off and
\* no action named; the sensor on with two actions off and a key outside the
\* action set
PrefInputs ==
    {[state |-> FALSE, actions |-> EmptyDict],
     [state |-> TRUE, actions |-> [a \in {"delete", "full_update", "bogus"} |-> a = "bogus"]]}

\* arguments of set_global_preferences
GlobalInputs ==
    {EmptyDict,
     [k \in {"updates_overview"} |-> FALSE],
     [k \in {"delete_unused_images", "updates_overview", "full_update_all"} |-> FALSE]}

\* arguments of prune
PruneInputs == {{}, {WebStableId, DbStableId}}

\* the slug of a container, as the characters of a topic segment
SlugChars(key, g) == slugify_container(ContainerNames[key], ShortIdOf(key, g))

Chars_start == <<"s","t","a","r","t">>

Chars_delete == <<"d","e","l","e","t","e">>

Chars_full_update == <<"f","u","l","l","_","u","p","d","a","t","e">>

Chars_STOP == <<"S","T","O","P">>

Chars_bogus == <<"b","o","g","u","s">>

Chars_docker == <<"d","o","c","k","e","r">>

Chars_delete_unused_images == Chars_delete \o <<"_","u","n","u","s","e","d","_","i","m","a","g","e","s">>

Chars_full_update_all == Chars_full_update \o <<"_","a","l","l">>

Chars_other == <<"o","t","h","e","r">>

Chars_get == <<"g","e","t">>

\* Topics of inbound messages: commands for web and db, one for a
\* self-container, the two fleet-wide commands, an upper-case action, an action
\* no handler knows, another base topic, a topic without "set", a short topic
MessageTopics ==
    {JoinSlash(<<base_topic_chars, SlugChars("web", 1), Text_set, Chars_start>>),
     JoinSlash(<<base_topic_chars, SlugChars("web", MaxGen), Text_set, Chars_full_update>>),
     JoinSlash(<<base_topic_chars, SlugChars("db", 1), Text_set, Chars_STOP>>),
     JoinSlash(<<base_topic_chars, SlugChars("db", 1), Text_set, Chars_delete>>),
     JoinSlash(<<base_topic_chars, SlugChars("db", 1), Text_set, Chars_bogus>>),
     JoinSlash(<<base_topic_chars, SlugChars("alias", 1), Text_set, Chars_start>>),
     JoinSlash(<<base_topic_chars, Chars_docker, Text_set, Chars_delete_unused_images>>),
     JoinSlash(<<base_topic_chars, Chars_docker, Text_set, Chars_full_update_all>>),
     JoinSlash(<<Chars_other, SlugChars("web", 1), Text_set, Chars_start>>),
     JoinSlash(<<base_topic_chars, SlugChars("web", 1), Chars_get, Chars_start>>),
     JoinSlash(<<base_topic_chars, SlugChars("web", 1), Text_set>>)}

\* route_message on the topics of the model, each computed once
routed == [t \in MessageTopics |-> route_message(t)]

----------------------------------------------------------------------------
(* The state machine of the synchronizer.                                   *)

\* ------------------------------------------------------------------------
\* services/docker.py: the update check

\* Python's None among the digests
None == "<None>"

\* The images of the engine: the first tag as repository and tag, the image
\* id, and RepoDigests as (repository, digest) pairs. app has the digest of
\* its own repository second in the list; tool was built locally and has no
\* digest
EngineImages ==
    [app |-> [tags |-> <<[repo |-> "app", tag |-> "1"]>>,
              id |-> "sha256:i1",
              RepoDigests |-> <<[repo |-> "mirror/app", digest |-> "sha256:d3"],
                                [repo |-> "app", digest |-> "sha256:d1"]>>],
     tool |-> [tags |-> <<[repo |-> "tool", tag |-> "1"]>>,
               id |-> "sha256:i2",
               RepoDigests |-> <<>>]]

\* docker_client.containers.list(all=True): each container with its id, its
\* name and its image, in the order of (stack, name); api and cron run the
\* same image
EngineContainers ==
    <<[id |-> "a1f0", name |-> "api", image |-> "app"],
      [id |-> "c1f0", name |-> "cron", image |-> "app"],
      [id |-> "b1f0", name |-> "job", image |-> "tool"]>>

\* _get_installed_image_info, the fields the classification reads
get_installed_image_info(container) ==
    LET installed_image == EngineImages[container.image]
        image_ref == installed_image.tags[1].repo \o ":" \o installed_image.tags[1].tag
        ref_repo == installed_image.tags[1].repo
        repo_digests == installed_image.RepoDigests
        matching == {i \in 1..Len(repo_digests) : repo_digests[i].repo = ref_repo}
        installed_digest ==
            IF matching # {}
            THEN repo_digests[CHOOSE i \in matching : \A j \in matching : i <= j].digest
            ELSE IF repo_digests # <<>> THEN repo_digests[1].digest
            ELSE None
    IN  [image_ref |-> image_ref,
         installed_id |-> installed_image.id,
         installed_digest |-> installed_digest]

\* _get_update_config: the frequency in minutes, 60 unless set, and the
\* tracked tag, which no operation of the model sets
get_update_config(prefs, container_id) ==
    LET pref == DictGet(prefs, container_id, EmptyDict)
        frequency == DictGet(pref, "frequency", 60)
        clamped == IF frequency < 5 THEN 5 ELSE IF frequency > 24 * 60 THEN 24 * 60
                   ELSE frequency
    IN  [frequency |-> clamped, track |-> None]

\* _build_check_reference with no tracked tag
build_check_reference(image_ref, preferred_tag) == image_ref

\* What the registry answers to inspect_distribution: it raises, or it gives
\* a descriptor with or without a digest
RegistryAnswers ==
    {[raises |-> TRUE, digest |-> None, changelog |-> None, source |-> None]}
        \cup {[raises |-> FALSE, digest |-> d, changelog |-> None, source |-> None] :
                 d \in {None, "sha256:d1", "sha256:d2", "sha256:i1", "sha256:i2"}}

\* github_cache_ttl
github_cache_ttl == 3600

\* What api.github.com does with the request for the releases of a
\* repository: 200 with a release, 200 with an empty list, 200 with a list
\* whose entries are not release objects, another status, a
\* RequestException (a timeout is one), or a body that is not JSON
GithubResponses ==
    {"release", "no_releases", "malformed", "status_404", "timeout", "bad_json"}

\* no request is made
NoResponse == "<no request>"

\* the empty dict _fetch_github_release_info returns when it has nothing
NoReleaseInfo == [changelog |-> None]

\* _extract_release_info of the release api.github.com lists
ReleaseInfo == [changelog |-> "release notes"]

\* _fetch_github_release_info: a fresh cache entry is answered from, and
\* raises when its releases are not release objects; otherwise the request
\* is made and its result cached, the empty one of a failure too
fetch_github_release_info(repo, response, gh_cache, gh_ts) ==
    IF repo \in DOMAIN gh_cache /\ now - DictGet(gh_ts, repo, 0) < github_cache_ttl
    THEN [raised |-> gh_cache[repo].releases = "malformed",
          info |-> gh_cache[repo].latest,
          source |-> "cache",
          gh_cache |-> gh_cache, gh_ts |-> gh_ts]
    ELSE LET result == IF response = "release" THEN ReleaseInfo ELSE NoReleaseInfo
             releases_list == IF response \in {"release", "malformed"} THEN response
                              ELSE "empty"
         IN  [raised |-> FALSE,
              info |-> result,
              source |-> response,
              gh_cache |-> (repo :> [releases |-> releases_list, latest |-> result])
                              @@ gh_cache,
              gh_ts |-> (repo :> now) @@ gh_ts]

\* _fetch_remote_info in which a failure of the release-notes lookup is a
\* failure of the whole lookup
fetch_remote_info_notes_fatal(answer, response, gh_cache, gh_ts) ==
    LET wanted == ~answer.raises /\ answer.source # None
                     /\ (answer.changelog = None \/ answer.changelog = "http://notes")
        github == fetch_github_release_info(answer.source, response, gh_cache, gh_ts)
        broken == wanted /\ (github.raised \/ github.info = NoReleaseInfo)
    IN  [info |-> [remote_id |-> IF answer.raises \/ broken THEN None ELSE answer.digest,
                   failed |-> answer.raises \/ broken,
                   remote_changelog |-> IF wanted /\ ~broken THEN github.info.changelog
                                        ELSE None],
         github |-> IF ~wanted THEN "none" ELSE github.source,
         gh_cache |-> IF wanted THEN github.gh_cache ELSE gh_cache,
         gh_ts |-> IF wanted THEN github.gh_ts ELSE gh_ts]

\* _fetch_remote_info: the remote id of the answer, None when the lookup
\* raised (failed records that it did), and the changelog: the annotation's
\* text, or, when there is none or it is a URL and a repository is known,
\* what the release-notes lookup gives, if it gives anything. github tells
\* where the release notes came from
fetch_remote_info(answer, response, gh_cache, gh_ts) ==
    IF answer.raises
    THEN [info |-> [remote_id |-> None, failed |-> TRUE, remote_changelog |-> None],
          github |-> "none", gh_cache |-> gh_cache, gh_ts |-> gh_ts]
    ELSE LET is_url == answer.changelog = "http://notes"
             remote_changelog == IF is_url THEN None ELSE answer.changelog
             wanted == (remote_changelog = None \/ is_url) /\ answer.source # None
             github == fetch_github_release_info(answer.source, response, gh_cache, gh_ts)
             enriched == wanted /\ ~github.raised /\ github.info # NoReleaseInfo
                            /\ github.info.changelog # None
         IN  [info |-> [remote_id |-> answer.digest,
                        failed |-> FALSE,
                        remote_changelog |-> IF enriched THEN github.info.changelog
                                             ELSE remote_changelog],
              github |-> IF ~wanted THEN "none"
                         ELSE IF github.raised THEN "raised" ELSE github.source,
              gh_cache |-> IF wanted THEN github.gh_cache ELSE gh_cache,
              gh_ts |-> IF wanted THEN github.gh_ts ELSE gh_ts]

\* remote_cache_ttl, the time to live of get_remote_info called without one
remote_cache_ttl == 300

\* the test of the cache against remote_cache_ttl whatever the caller passes
cache_hit_global_ttl(cache, ts, image_ref, ttl) ==
    /\ now - DictGet(ts, image_ref, 0) <= remote_cache_ttl
    /\ image_ref \in DOMAIN cache

\* get_remote_info, the test of the cache
cache_hit(cache, ts, image_ref, ttl) ==
    /\ now - DictGet(ts, image_ref, 0) <= ttl
    /\ image_ref \in DOMAIN cache

\* the merge with the image id as the stand-in for a missing remote id
merge_falls_back_to_image_id(installed_info, remote_info) ==
    [remote_id |->
        IF remote_info.remote_id = None THEN installed_info.installed_id
        ELSE remote_info.remote_id]

\* _merge_remote_with_installed, the remote id: the installed digest stands
\* in for a remote id that is missing
merge_remote_with_installed(installed_info, remote_info) ==
    [remote_id |->
        IF remote_info.remote_id = None /\ installed_info.installed_digest # None
        THEN installed_info.installed_digest
        ELSE remote_info.remote_id]

\* the classification with the image id as the only compare reference
classify_by_image_id(installed_info, remote_id) ==
    IF remote_id = None THEN "unknown"
    ELSE IF remote_id = installed_info.installed_id THEN "up_to_date"
    ELSE "update_available"

\* collect_containers_info_for_updates, the classification
classify_collected(installed_info, remote_id) ==
    LET installed_digest == installed_info.installed_digest
        installed_compare_ref ==
            IF installed_digest # None THEN installed_digest
            ELSE installed_info.installed_id
    IN  IF remote_id = None THEN "unknown"
        ELSE IF remote_id = installed_compare_ref THEN "up_to_date"
        ELSE "update_available"

\* get_container_update_info, the classification
classify_single(installed_info, remote_id) ==
    LET installed_digest == installed_info.installed_digest
        installed_compare_ref ==
            IF installed_digest # None THEN installed_digest
            ELSE installed_info.installed_id
    IN  IF remote_id = None THEN "unknown"
        ELSE IF installed_compare_ref # None /\ remote_id = installed_compare_ref
             THEN "up_to_date"
        ELSE "update_available"

\* One container of an update query: get_remote_info on its check reference
\* with the caches as they are, then the merge and the classification. The
\* result holds the entry returned and the caches afterwards; lookup tells
\* whether the registry was asked and whether it answered; had_cache and
\* cache_age are the cache as get_remote_info found it
check_container(container, single, ttl, answer, cache, ts) ==
    LET installed_info == get_installed_image_info(container)
        update_config == get_update_config(update_preferences, container.id)
        check_ref == build_check_reference(installed_info.image_ref, update_config.track)
        hit == cache_hit(cache, ts, check_ref, ttl)
        remote_info ==
            IF hit THEN cache[check_ref]
            ELSE fetch_remote_info(answer, NoResponse, github_release_cache,
                                   github_release_cache_ts).info
        merged == merge_remote_with_installed(installed_info, remote_info)
    IN  [entry |->
            [name |-> container.name,
             id |-> container.id,
             check_ref |-> check_ref,
             frequency |-> update_config.frequency,
             had_cache |-> check_ref \in DOMAIN cache,
             cache_age |-> now - DictGet(ts, check_ref, 0),
             installed_id |-> installed_info.installed_id,
             installed_digest |-> installed_info.installed_digest,
             lookup |-> IF hit THEN "cached"
                        ELSE IF remote_info.failed THEN "failed" ELSE "answered",
             lookup_failed |-> remote_info.failed,
             remote_digest |-> remote_info.remote_id,
             update_state |-> IF single
                              THEN classify_single(installed_info, merged.remote_id)
                              ELSE classify_collected(installed_info, merged.remote_id)],
         cache |-> IF hit THEN cache ELSE (check_ref :> remote_info) @@ cache,
         ts |-> IF hit THEN ts ELSE (check_ref :> now) @@ ts]

\* the references the containers of the engine are checked against
CheckReferences ==
    {build_check_reference(get_installed_image_info(EngineContainers[i]).image_ref, None) :
        i \in 1..Len(EngineContainers)}

\* collect_containers_info_for_updates, the loop from container i on; answers
\* is what the registry answers for each reference during the collect
RECURSIVE collect_from(_, _, _, _)
collect_from(i, answers, cache, ts) ==
    IF i > Len(EngineContainers) THEN [entries |-> <<>>, cache |-> cache, ts |-> ts]
    ELSE LET c == EngineContainers[i]
             update_config == get_update_config(update_preferences, c.id)
             check_ref ==
                 build_check_reference(get_installed_image_info(c).image_ref,
                                       update_config.track)
             ttl == update_config.frequency * 60
             one == check_container(c, FALSE, ttl, answers[check_ref], cache, ts)
             rest == collect_from(i + 1, answers, one.cache, one.ts)
         IN  [entries |-> <<one.entry>> \o rest.entries,
              cache |-> rest.cache, ts |-> rest.ts]

\* the clock ticks this many times
MaxTicks == 2

InitUpdates ==
    /\ now = 1000000
    /\ update_preferences = EmptyDict
    /\ remote_cache = EmptyDict
    /\ remote_cache_ts = EmptyDict
    /\ upd_op = ""
    /\ upd_out = <<>>

\* ------------------------------------------------------------------------
\* services/docker.py: the release notes of a remote descriptor

\* the clock passes the time to live of the release cache after this many
\* half hours
MaxHalfHours == 3

\* What the registry answers in the release-notes steps: a descriptor with
\* or without a digest, whose annotations hold a changelog text, a changelog
\* URL or none, and a source repository on github or none
AnnotatedAnswers ==
    {[raises |-> TRUE, digest |-> None, changelog |-> None, source |-> None]}
        \cup {[raises |-> FALSE, digest |-> d, changelog |-> c, source |-> r] :
                 d \in {None, "sha256:d1", "sha256:d2"},
                 c \in {None, "fixes", "http://notes"},
                 r \in {None, "acme/app"}}

\* the update_state of a container for the remote info of a lookup
state_for(container, single, info) ==
    LET installed_info == get_installed_image_info(container)
        merged == merge_remote_with_installed(installed_info, info)
    IN  IF single THEN classify_single(installed_info, merged.remote_id)
        ELSE classify_collected(installed_info, merged.remote_id)

InitNotes ==
    /\ github_release_cache = EmptyDict
    /\ github_release_cache_ts = EmptyDict
    /\ notes_out = <<>>

\* half an hour passes
HalfHour ==
    /\ now < 1000000 + 1800 * MaxHalfHours
    /\ now' = now + 1800
    /\ notes_out' = <<>>
    /\ UNCHANGED <<github_release_cache, github_release_cache_ts>>
    /\ UNCHANGED <<update_preferences, remote_cache, remote_cache_ts, upd_op, upd_out>>
    /\ UNCHANGED <<ext_vars, side_vars, sync_vars, fleet_vars>>

\* _fetch_remote_info for the reference of a container, with the answer of
\* the registry and what api.github.com does if it is asked, followed by the
\* merge and the classification of the query that asked
FetchRemoteInfo ==
    /\ \E i \in 1..Len(EngineContainers), single \in BOOLEAN,
          answer \in AnnotatedAnswers, response \in GithubResponses :
          \E r \in {fetch_remote_info(answer, response, github_release_cache,
                                      github_release_cache_ts)} :
             /\ notes_out' =
                    <<[container |-> i, single |-> single, answer |-> answer,
                       github |-> r.github,
                       remote_changelog |-> r.info.remote_changelog,
                       update_state |-> state_for(EngineContainers[i], single, r.info)]>>
             /\ github_release_cache' = r.gh_cache
             /\ github_release_cache_ts' = r.gh_ts
    /\ UNCHANGED <<ext_vars, side_vars, sync_vars, upd_vars, fleet_vars>>

NextNotes == HalfHour \/ FetchRemoteInfo

\* five minutes pass
Tick ==
    /\ now < 1000000 + 300 * MaxTicks
    /\ now' = now + 300
    /\ upd_op' = ""
    /\ upd_out' = <<>>
    /\ UNCHANGED <<update_preferences, remote_cache, remote_cache_ts>>
    /\ UNCHANGED <<ext_vars, side_vars, sync_vars, notes_vars, fleet_vars>>

\* the minutes set_update_frequency is called with: below the range and
\* above it
UpdateFrequencies == {1, 2000}

\* the containers set_update_frequency is called for: the two that share a
\* reference
FrequencySetFor == {1, 2}

\* set_update_frequency
SetUpdateFrequency ==
    /\ \E i \in FrequencySetFor, minutes \in UpdateFrequencies :
          LET container_id == EngineContainers[i].id
              clamped == IF minutes < 5 THEN 5 ELSE IF minutes > 24 * 60 THEN 24 * 60
                         ELSE minutes
              prefs == DictGet(update_preferences, container_id, EmptyDict)
          IN  update_preferences' =
                  (container_id :> ([frequency |-> clamped] @@ prefs)) @@ update_preferences
    /\ upd_op' = ""
    /\ upd_out' = <<>>
    /\ UNCHANGED <<now, remote_cache, remote_cache_ts>>
    /\ UNCHANGED <<ext_vars, side_vars, sync_vars, notes_vars, fleet_vars>>

\* the registry is not asked: the answer a query never reads
NotAsked == [raises |-> TRUE, digest |-> None, changelog |-> None, source |-> None]

\* the references a collect asks the registry for: those some container
\* does not find in the cache within its own time to live
AskedReferences ==
    {build_check_reference(get_installed_image_info(EngineContainers[i]).image_ref,
                           get_update_config(update_preferences, EngineContainers[i].id).track) :
        i \in {j \in 1..Len(EngineContainers) :
                  LET c == EngineContainers[j]
                      update_config == get_update_config(update_preferences, c.id)
                  IN  ~cache_hit(remote_cache, remote_cache_ts,
                                 build_check_reference(
                                     get_installed_image_info(c).image_ref,
                                     update_config.track),
                                 update_config.frequency * 60)}}

\* collect_containers_info_for_updates
CollectUpdates ==
    /\ \E answers \in {a \in [CheckReferences -> RegistryAnswers] :
                          \A ref \in CheckReferences \ AskedReferences :
                              a[ref] = NotAsked} :
          \E r \in {collect_from(1, answers, remote_cache, remote_cache_ts)} :
             /\ upd_out' = r.entries
             /\ remote_cache' = r.cache
             /\ remote_cache_ts' = r.ts
    /\ upd_op' = "collect_containers_info_for_updates"
    /\ UNCHANGED <<now, update_preferences>>
    /\ UNCHANGED <<ext_vars, side_vars, sync_vars, notes_vars, fleet_vars>>

\* get_container_update_info(container_id, force_refresh) for a container the
\* engine has
GetContainerUpdateInfo ==
    /\ \E i \in 1..Len(EngineContainers), force_refresh \in BOOLEAN,
          answer \in RegistryAnswers :
          LET c == EngineContainers[i]
              asked ==
                  \/ force_refresh
                  \/ ~cache_hit(remote_cache, remote_cache_ts,
                                build_check_reference(
                                    get_installed_image_info(c).image_ref,
                                    get_update_config(update_preferences, c.id).track),
                                get_update_config(update_preferences, c.id).frequency * 60)
              update_config == get_update_config(update_preferences, c.id)
              check_ref ==
                  build_check_reference(get_installed_image_info(c).image_ref,
                                        update_config.track)
              ts == IF force_refresh THEN (check_ref :> 0) @@ remote_cache_ts
                    ELSE remote_cache_ts
              ttl == IF force_refresh THEN 0 ELSE update_config.frequency * 60
          IN  /\ asked \/ answer = NotAsked
              /\ \E r \in {check_container(c, TRUE, ttl, answer, remote_cache, ts)} :
                 /\ upd_out' = <<r.entry>>
                 /\ remote_cache' = r.cache
                 /\ remote_cache_ts' = r.ts
    /\ upd_op' = "get_container_update_info"
    /\ UNCHANGED <<now, update_preferences>>
    /\ UNCHANGED <<ext_vars, side_vars, sync_vars, notes_vars, fleet_vars>>

NextUpdates == Tick \/ SetUpdateFrequency \/ CollectUpdates \/ GetContainerUpdateInfo

\* ------------------------------------------------------------------------
\* services/docker.py: the fleet cache and its refresher

\* the fleets the engine can have: none, one container, two
Fleets == {<<>>, <<"web">>, <<"db", "web">>}

\* the threads that call start_overview_refresher
Callers == {1, 2}

\* the overview_refresher threads there can be: one for each caller
Threads == 1..Cardinality(Callers)

\* the clock of the fleet cache ticks this many times
MaxFleetTicks == 1

\* list_stacks_overview: the fleet of the engine; it raises when
\* docker_client.containers.list does
list_stacks_overview ==
    [raised |-> ~engine_up, stacks |-> IF engine_up THEN engine_fleet ELSE <<>>]

\* refresh_overview_cache that empties the cache when the query fails
refresh_clears_on_failure(cache, ts) ==
    LET query == list_stacks_overview
    IN  IF query.raised THEN [raised |-> TRUE, cache |-> <<>>, ts |-> now]
        ELSE [raised |-> FALSE, cache |-> query.stacks, ts |-> now]

\* refresh_overview_cache: the query first, and the two assignments only if
\* it returns
refresh_overview_cache(cache, ts) ==
    LET query == list_stacks_overview
    IN  IF query.raised THEN [raised |-> TRUE, cache |-> cache, ts |-> ts]
        ELSE [raised |-> FALSE, cache |-> query.stacks, ts |-> now]

\* get_cached_overview: a copy of the cache if it is not an empty list, else
\* what list_stacks_overview returns or raises
get_cached_overview(cache) ==
    IF cache # <<>> THEN [raised |-> FALSE, value |-> cache, queried |-> FALSE]
    ELSE [raised |-> list_stacks_overview.raised,
          value |-> list_stacks_overview.stacks,
          queried |-> TRUE]

\* Thread.is_alive of _overview_thread: the loop of a started thread never
\* ends
is_alive(thread) == thread # 0 /\ refresher_pc[thread] # "none"

\* what a step of the fleet cache leaves in fleet_out
FleetOut(op, raised, value, queried, before_cache, before_ts) ==
    <<[op |-> op, raised |-> raised, value |-> value, queried |-> queried,
       before_cache |-> before_cache, before_ts |-> before_ts,
       engine_up |-> engine_up, refreshed |-> refreshed]>>

InitFleet ==
    /\ engine_up = TRUE
    /\ engine_fleet = <<>>
    /\ overview_cache = <<>>
    /\ overview_cache_ts = 0
    /\ overview_thread = 0
    /\ refresher_pc = [t \in Threads |-> "none"]
    /\ caller_pc = [c \in Callers |-> "idle"]
    /\ publisher_pc = "none"
    /\ refreshed = FALSE
    /\ fleet_out = <<>>

\* the engine stops answering or answers again, or containers come and go
EngineChange ==
    /\ \E up \in BOOLEAN, fleet \in Fleets :
          /\ <<up, fleet>> # <<engine_up, engine_fleet>>
          /\ engine_up' = up
          /\ engine_fleet' = fleet
    /\ fleet_out' = <<>>
    /\ UNCHANGED <<overview_cache, overview_cache_ts, overview_thread, refresher_pc,
                   caller_pc, publisher_pc, refreshed>>
    /\ UNCHANGED <<ext_vars, side_vars, sync_vars, upd_vars, notes_vars>>

\* five seconds pass
FleetTick ==
    /\ now < 1000000 + 5 * MaxFleetTicks
    /\ now' = now + 5
    /\ fleet_out' = <<>>
    /\ UNCHANGED <<engine_up, engine_fleet, overview_cache, overview_cache_ts,
                   overview_thread, refresher_pc, caller_pc, publisher_pc, refreshed>>
    /\ UNCHANGED <<update_preferences, remote_cache, remote_cache_ts, upd_op, upd_out>>
    /\ UNCHANGED <<ext_vars, side_vars, sync_vars, notes_vars>>

\* start_overview_refresher, the test: the caller returns if the thread it
\* finds is alive, and goes on to start one if not
StartCheck(c) ==
    /\ caller_pc[c] = "idle"
    /\ caller_pc' = [caller_pc EXCEPT ![c] =
                        IF is_alive(overview_thread) THEN "idle" ELSE "checked"]
    /\ fleet_out' = FleetOut("start_overview_refresher", FALSE, <<>>, FALSE,
                             overview_cache, overview_cache_ts)
    /\ UNCHANGED <<engine_up, engine_fleet, overview_cache, overview_cache_ts,
                   overview_thread, refresher_pc, publisher_pc, refreshed>>
    /\ UNCHANGED <<ext_vars, side_vars, sync_vars, upd_vars, notes_vars>>

\* start_overview_refresher, after the test: the thread is started and kept
\* in _overview_thread
StartThread(c) ==
    /\ caller_pc[c] = "checked"
    /\ \E t \in Threads :
          /\ refresher_pc[t] = "none"
          /\ \A u \in Threads : u < t => refresher_pc[u] # "none"
          /\ refresher_pc' = [refresher_pc EXCEPT ![t] = "run"]
          /\ overview_thread' = t
    /\ caller_pc' = [caller_pc EXCEPT ![c] = "idle"]
    /\ fleet_out' = <<>>
    /\ UNCHANGED <<engine_up, engine_fleet, overview_cache, overview_cache_ts,
                   publisher_pc, refreshed>>
    /\ UNCHANGED <<ext_vars, side_vars, sync_vars, upd_vars, notes_vars>>

\* a loop whose turn ends when the call in it raises
turn_ends_on_error(raised) == IF raised THEN "ended" ELSE "sleep"

\* one turn of the loop of overview_refresher and of mqtt_publisher: what
\* the call raises is caught and logged, and the thread sleeps
loop_turn(raised) == "sleep"

\* the refresh of a step: the operation by, with the cache it found
Refresh(by) ==
    \E r \in {refresh_overview_cache(overview_cache, overview_cache_ts)} :
        /\ overview_cache' = r.cache
        /\ overview_cache_ts' = r.ts
        /\ refreshed' = (refreshed \/ ~r.raised)
        /\ fleet_out' = FleetOut(by, r.raised, r.cache, TRUE,
                                 overview_cache, overview_cache_ts)

\* _run of an overview_refresher thread, one turn of the loop up to the
\* sleep: the refresh, and the log of what it raises
RefresherRun(t) ==
    /\ refresher_pc[t] = "run"
    /\ Refresh("overview_refresher")
    /\ refresher_pc' = [refresher_pc EXCEPT ![t] = loop_turn(fleet_out'[1].raised)]
    /\ UNCHANGED <<engine_up, engine_fleet, overview_thread, caller_pc, publisher_pc>>
    /\ UNCHANGED <<ext_vars, side_vars, sync_vars, upd_vars, notes_vars>>

\* _run, the sleep is over
RefresherWake(t) ==
    /\ refresher_pc[t] = "sleep"
    /\ refresher_pc' = [refresher_pc EXCEPT ![t] = "run"]
    /\ fleet_out' = <<>>
    /\ UNCHANGED <<engine_up, engine_fleet, overview_cache, overview_cache_ts,
                   overview_thread, caller_pc, publisher_pc, refreshed>>
    /\ UNCHANGED <<ext_vars, side_vars, sync_vars, upd_vars, notes_vars>>

\* refresh_overview_cache called by a request, after an action
RequestRefresh ==
    /\ Refresh("refresh_overview_cache")
    /\ UNCHANGED <<engine_up, engine_fleet, overview_thread, refresher_pc, caller_pc,
                   publisher_pc>>
    /\ UNCHANGED <<ext_vars, side_vars, sync_vars, upd_vars, notes_vars>>

\* get_cached_overview called by a request
GetCachedOverview ==
    /\ \E r \in {get_cached_overview(overview_cache)} :
          fleet_out' = FleetOut("get_cached_overview", r.raised, r.value, r.queried,
                                overview_cache, overview_cache_ts)
    /\ UNCHANGED <<engine_up, engine_fleet, overview_cache, overview_cache_ts,
                   overview_thread, refresher_pc, caller_pc, publisher_pc, refreshed>>
    /\ UNCHANGED <<ext_vars, side_vars, sync_vars, upd_vars, notes_vars>>

NextFleet ==
    \/ EngineChange
    \/ FleetTick
    \/ \E c \in Callers : StartCheck(c)
    \/ \E c \in Callers : StartThread(c)
    \/ \E t \in Threads : RefresherRun(t)
    \/ \E t \in Threads : RefresherWake(t)
    \/ RequestRefresh
    \/ GetCachedOverview

----------------------------------------------------------------------------
(* services/docker.py: the destructive actions. The engine's containers are *)
(* numbered in the order the engine created them.                           *)

\* the containers the engine starts with
FirstContainers == {1, 2}

\* the most containers the engine creates
MaxCreated == 4

\* the engine calls of recreate_container_with_latest_image with the image
\* pulled before the container is removed
RecreateSteps_pull_first ==
    <<"get", "inspect", "pull", "remove", "untag", "create", "start", "verify">>

\* the engine calls of recreate_container_with_latest_image, in its order:
\* containers.get, inspect_container, remove_container, remove_image, pull,
\* create_container, start, containers.get of the new container
RecreateSteps ==
    <<"get", "inspect", "remove", "untag", "pull", "create", "start", "verify">>

\* the calls that change the engine
EngineMutations == {"remove", "untag", "pull", "create", "start"}

\* the except clause of the pull only printing as well
BestEffortSteps_with_pull == {"untag", "pull"}

\* the step whose except clause only prints
BestEffortSteps == {"untag"}

StepAt(step) == CHOOSE i \in 1..Len(RecreateSteps) : RecreateSteps[i] = step

\* what a destructive action did: the engine calls it made in order, those
\* the engine rejected, whether it raised, the class of what it raised and
\* the step whose engine error that carries (raise ... from e, or the engine
\* error itself)
WriteOut(op, container_id, made, rejected, raised, error, cause, before) ==
    [op |-> op, container_id |-> container_id, made |-> made, rejected |-> rejected,
     raised |-> raised, error |-> error, cause |-> cause, before |-> before]

\* recreate_container_with_latest_image(container_id) on an engine that
\* rejects the calls in faults, and containers.get of an id it does not have
recreate_container_with_latest_image(containers, created, container_id, faults) ==
    LET Rejects(step) ==
            \/ step \in faults
            \/ step = "get" /\ container_id \notin containers
        fatal == {i \in 1..Len(RecreateSteps) :
                    /\ Rejects(RecreateSteps[i])
                    /\ RecreateSteps[i] \notin BestEffortSteps}
        stop == IF fatal = {} THEN Len(RecreateSteps) + 1
                ELSE CHOOSE i \in fatal : \A j \in fatal : i <= j
        Done(step) == StepAt(step) < stop
        made == SubSeq(RecreateSteps, 1, IF fatal = {} THEN Len(RecreateSteps) ELSE stop)
        rejected == {made[i] : i \in {j \in 1..Len(made) : Rejects(made[j])}}
        raised == fatal # {}
        failed == IF raised THEN RecreateSteps[stop] ELSE "none"
        kept == IF Done("remove") THEN containers \ {container_id} ELSE containers
    IN  [containers |-> IF Done("create") THEN kept \cup {created + 1} ELSE kept,
         created |-> IF Done("create") THEN created + 1 ELSE created,
         out |-> WriteOut("recreate_container_with_latest_image", container_id,
                          made, rejected, raised,
                          IF ~raised THEN "none"
                          ELSE IF failed = "inspect" THEN "engine error"
                          ELSE "RuntimeError",
                          failed, containers)]

\* remove_container(container_id): the engine call in a try block whose
\* except clause passes
remove_container(containers, container_id, fault) ==
    LET rejects == fault \/ container_id \notin containers
    IN  [containers |-> IF rejects THEN containers ELSE containers \ {container_id},
         out |-> WriteOut("remove_container", container_id, <<"remove">>,
                          IF rejects THEN {"remove"} ELSE {},
                          FALSE, "none", "none", containers)]

InitWrite ==
    /\ engine_containers = FirstContainers
    /\ engine_created = Cardinality(FirstContainers)
    /\ write_out = <<>>

\* a caller (a route of the web application or a command from the broker)
\* recreates a container
RecreateContainer ==
    /\ engine_created < MaxCreated
    /\ \E container_id \in 1..MaxCreated, faults \in SUBSET {RecreateSteps[i] : i \in 1..Len(RecreateSteps)} :
          \E r \in {recreate_container_with_latest_image(engine_containers, engine_created,
                                                         container_id, faults)} :
             /\ engine_containers' = r.containers
             /\ engine_created' = r.created
             /\ write_out' = <<r.out>>
    /\ UNCHANGED <<ext_vars, sync_vars, upd_vars, notes_vars, fleet_vars, hist_vars, prefs_vars, ids_vars, net_vars>>

\* a caller removes a container
RemoveContainer ==
    /\ \E container_id \in 1..MaxCreated, fault \in BOOLEAN :
          \E r \in {remove_container(engine_containers, container_id, fault)} :
             /\ engine_containers' = r.containers
             /\ write_out' = <<r.out>>
    /\ UNCHANGED engine_created
    /\ UNCHANGED <<ext_vars, sync_vars, upd_vars, notes_vars, fleet_vars, hist_vars, prefs_vars, ids_vars, net_vars>>

NextWrite == RecreateContainer \/ RemoveContainer

----------------------------------------------------------------------------
(* mqtt/manager.py: the publish history.                                    *)

\* deque(maxlen=200)
publish_history_maxlen == 200

\* the most calls of _publish
MaxPublishes == 203

\* the arguments of get_publish_history
HistoryLimits == {-1, 0, 1, 2, publish_history_maxlen, publish_history_maxlen + 1}

\* the calls of _publish the steps make, over and over: those of
\* _publish_docker_status
PublishFeed == publish_docker_status(DEFAULT_GLOBAL_PREFERENCES)

\* str(payload): every caller passes a str, and str of a str is that str
payload_str(payload) == payload

\* the dict _record_publish appends
HistoryRecord(pub, timestamp) ==
    [topic |-> pub.topic, payload |-> payload_str(pub.payload), qos |-> pub.qos,
     retain |-> pub.retain, timestamp |-> timestamp]

\* a deque that grows without bound
deque_append_unbounded(history, record) == Append(history, record)

\* deque.append on a deque with maxlen: a full deque drops its leftmost item
deque_append(history, record) ==
    IF Len(history) < publish_history_maxlen THEN Append(history, record)
    ELSE Append(Tail(history), record)

\* _publish with the record made after the publish, not in a finally clause
publish_records_on_success(history, client, pub, timestamp, raises) ==
    IF ~client THEN [history |-> history, raised |-> FALSE]
    ELSE [history |-> IF raises THEN history
                      ELSE deque_append(history, HistoryRecord(pub, timestamp)),
          raised |-> raises]

\* _publish(topic, payload, qos, retain): nothing without a client; with
\* one, the transport's publish and, in the finally clause, _record_publish
publish(history, client, pub, timestamp, raises) ==
    IF ~client THEN [history |-> history, raised |-> FALSE]
    ELSE [history |-> deque_append(history, HistoryRecord(pub, timestamp)),
          raised |-> raises]

\* get_publish_history(limit): entries[-limit:] of a copy when limit > 0
get_publish_history(history, limit) ==
    IF limit > 0
    THEN SubSeq(history, IF Len(history) > limit THEN Len(history) - limit + 1 ELSE 1,
                Len(history))
    ELSE history

InitHistory ==
    /\ publish_history = <<>>
    /\ publish_clock = 0
    /\ history_out = <<>>

\* one call of _publish, by a pass after setup
Publish ==
    /\ setup_done
    /\ publish_clock < MaxPublishes
    /\ publish_clock' = publish_clock + 1
    /\ \E raises \in BOOLEAN :
          \E pub \in {PublishFeed[(publish_clock % Len(PublishFeed)) + 1]} :
          \E r \in {publish(publish_history, mqtt_client, pub, publish_clock', raises)} :
             /\ publish_history' = r.history
             /\ history_out' = <<[op |-> "_publish", pub |-> pub, client |-> mqtt_client,
                                  at |-> publish_clock', raised |-> r.raised]>>
    /\ UNCHANGED <<ext_vars, sync_vars, upd_vars, notes_vars, fleet_vars, write_vars, prefs_vars, ids_vars, net_vars>>

\* GET /api/mqtt publish history: get_publish_history(limit)
GetPublishHistory ==
    /\ \E limit \in HistoryLimits :
          history_out' = <<[op |-> "get_publish_history", limit |-> limit,
                            value |-> get_publish_history(publish_history, limit)]>>
    /\ UNCHANGED <<publish_history, publish_clock>>
    /\ UNCHANGED <<ext_vars, sync_vars, upd_vars, notes_vars, fleet_vars, write_vars, prefs_vars, ids_vars, net_vars>>

----------------------------------------------------------------------------
(* services/preferences.py: the calls of the store, and the restart of the  *)
(* application, which constructs the store again from the document.         *)

\* the ids the store is called with: the stable ids of two containers
PrefIds == {WebStableId, DbStableId}

\* what a call of the store did
PrefOut(op, args, value, saved) ==
    [op |-> op, args |-> args, value |-> value, saved |-> saved,
     before_data |-> pref_data, before_global |-> pref_global, before_doc |-> pref_doc]

CallSetPreferences ==
    /\ \E stable_id \in PrefIds, input \in PrefInputs :
          \E r \in {set_preferences(pref_data, pref_global, stable_id,
                                    input.state, input.actions)} :
             /\ pref_data' = r.data
             /\ pref_doc' = r.doc
             /\ pref_out' = <<PrefOut("set_preferences",
                                      [stable_id |-> stable_id, input |-> input],
                                      r.value, TRUE)>>
    /\ UNCHANGED <<pref_global, prefs_rest>>

CallSetGlobalPreferences ==
    /\ \E input \in GlobalInputs :
          \E r \in {set_global_preferences(pref_data, input)} :
             /\ pref_global' = r.global
             /\ pref_doc' = r.doc
             /\ pref_out' = <<PrefOut("set_global_preferences", [input |-> input],
                                      r.value, TRUE)>>
    /\ UNCHANGED <<pref_data, prefs_rest>>

CallGetWithDefaults ==
    /\ \E stable_id \in PrefIds :
          pref_out' = <<PrefOut("get_with_defaults", [stable_id |-> stable_id],
                                get_with_defaults(pref_data, stable_id), FALSE)>>
    /\ UNCHANGED <<pref_data, pref_global, pref_doc, prefs_rest>>

CallBuildMapFor ==
    /\ \E stable_ids \in SUBSET PrefIds :
          pref_out' = <<PrefOut("build_map_for", [stable_ids |-> stable_ids],
                                build_map_for(pref_data, stable_ids), FALSE)>>
    /\ UNCHANGED <<pref_data, pref_global, pref_doc, prefs_rest>>

CallPrune ==
    /\ \E valid_ids \in SUBSET PrefIds :
          \E r \in {prune(pref_data, valid_ids)} :
             /\ pref_data' = r.data
             /\ pref_doc' = IF r.saved THEN <<save(r.data, pref_global)>> ELSE pref_doc
             /\ pref_out' = <<PrefOut("prune", [valid_ids |-> valid_ids], <<>>, r.saved)>>
    /\ UNCHANGED <<pref_global, prefs_rest>>

\* the application starts again: AutodiscoveryPreferences(path)
Restart ==
    /\ \E r \in {load(pref_doc)} :
          /\ pref_data' = r.data
          /\ pref_global' = r.global
    /\ pref_out' = <<PrefOut("__init__", <<>>, <<>>, FALSE)>>
    /\ UNCHANGED <<pref_doc, prefs_rest>>

NextPrefs ==
    \/ CallSetPreferences
    \/ CallSetGlobalPreferences
    \/ CallGetWithDefaults
    \/ CallBuildMapFor
    \/ CallPrune
    \/ Restart

----------------------------------------------------------------------------
(* services/utils.py: build_stable_id, called on its own.                   *)

\* the longest stack and container name build_stable_id is called with
MaxIdLen == 2

\* the characters of those names
IdChars == {"a", "B", "1", "_", "-", DottedI}

\* the names: every string of IdChars up to MaxIdLen, the empty one included
IdStrings == UNION {[1..n -> IdChars] : n \in 0..MaxIdLen}

\* one call of build_stable_id; the function keeps nothing from call to call,
\* so one call is followed
BuildStableId ==
    /\ stable_id_out = <<>>
    /\ \E stack \in IdStrings, name \in IdStrings :
          stable_id_out' = <<[stack |-> stack, name |-> name,
                              value |-> build_stable_id(stack, name)]>>
    /\ UNCHANGED <<ext_vars, sync_vars, upd_vars, notes_vars, fleet_vars, write_vars, hist_vars,
                   prefs_vars, net_vars>>

----------------------------------------------------------------------------
(* services/docker.py: the removal of a network.                            *)

\* DockerService.SYSTEM_NETWORKS
SYSTEM_NETWORKS == {<<"b","r","i","d","g","e">>, <<"h","o","s","t">>, <<"n","o","n","e">>}

\* the networks of the engine, by id: the three the engine comes with, two
\* that differ from them in case, and four others
NetworkNames ==
    [n1 |-> <<"b","r","i","d","g","e">>, n2 |-> <<"h","o","s","t">>,
     n3 |-> <<"n","o","n","e">>, n4 |-> <<"H","o","s","t">>,
     n5 |-> <<"N","O","N","E">>, n6 |-> <<"m","y","n","e","t">>,
     n7 |-> <<"b","r","i","d","g","e","s">>, n8 |-> <<"h","o","s","t","_","1">>,
     n9 |-> <<"n","o">>]

\* the ids remove_network is called with: one of them of no network
NetworkIds == (DOMAIN NetworkNames) \cup {"n0"}

\* the test without lower()
is_protected_network_exact(name) == name \in SYSTEM_NETWORKS

\* _is_protected_network(name)
is_protected_network(name) == Lower(name) \in SYSTEM_NETWORKS

\* remove_network(network_id) on an engine that has the networks given and
\* rejects the removal or not: the engine calls made, what was raised and the
\* networks left
remove_network(networks, network_id, rejects) ==
    IF network_id \notin networks
    THEN [networks |-> networks, made |-> <<"get">>, raised |-> "NotFound"]
    ELSE LET name == NetworkNames[network_id]
             \* network.name or network_id
             network_name == IF name = <<>> THEN <<network_id>> ELSE name
         IN  IF is_protected_network(network_name)
             THEN [networks |-> networks, made |-> <<"get">>, raised |-> "ValueError"]
             ELSE IF rejects
             THEN [networks |-> networks, made |-> <<"get", "remove">>,
                   raised |-> "APIError"]
             ELSE [networks |-> networks \ {network_id}, made |-> <<"get", "remove">>,
                   raised |-> "none"]

\* DELETE of a network by the web application
RemoveNetwork ==
    /\ \E network_id \in NetworkIds, rejects \in BOOLEAN :
          \E r \in {remove_network(engine_networks, network_id, rejects)} :
             /\ engine_networks' = r.networks
             /\ network_out' = <<[network_id |-> network_id, before |-> engine_networks,
                                  rejects |-> rejects, made |-> r.made,
                                  raised |-> r.raised]>>
    /\ UNCHANGED <<ext_vars, sync_vars, upd_vars, notes_vars, fleet_vars, write_vars, hist_vars,
                   prefs_vars, ids_vars>>

----------------------------------------------------------------------------
(* services/utils.py: format_timedelta.                                     *)

MaxDays == 2

\* the numbers of seconds format_timedelta is called with: every mix of whole
\* days, hours, minutes and left-over seconds below, and five negative ones
TimedeltaInputs ==
    {d * 86400 + h * 3600 + m * 60 + x :
        d \in 0..MaxDays, h \in {0, 1, 2, 23}, m \in {0, 1, 59}, x \in {0, 1, 59}}
    \cup {-1, -60, -3600, -86400, -90061}

\* " ".join(parts)
RECURSIVE JoinSpace(_)
JoinSpace(parts) ==
    IF parts = <<>> THEN ""
    ELSE IF Len(parts) = 1 THEN parts[1]
    ELSE parts[1] \o " " \o JoinSpace(Tail(parts))

\* format_timedelta without the test for a negative number
format_timedelta_unclamped(delta_seconds) ==
    LET days == delta_seconds \div 86400
        hours == (delta_seconds % 86400) \div 3600
        minutes == (delta_seconds % 3600) \div 60
        parts1 == IF days # 0 THEN <<ToString(days) \o "g">> ELSE <<>>
        parts2 == IF hours # 0 THEN Append(parts1, ToString(hours) \o "h") ELSE parts1
        parts3 == IF minutes # 0 \/ parts2 = <<>>
                  THEN Append(parts2, ToString(minutes) \o "m") ELSE parts2
    IN  JoinSpace(parts3)

\* format_timedelta(delta_seconds), for a whole number of seconds
format_timedelta(delta_seconds) ==
    LET seconds == IF delta_seconds < 0 THEN 0 ELSE delta_seconds
        days == seconds \div 86400
        hours == (seconds % 86400) \div 3600
        minutes == (seconds % 3600) \div 60
        parts1 == IF days # 0 THEN <<ToString(days) \o "g">> ELSE <<>>
        parts2 == IF hours # 0 THEN Append(parts1, ToString(hours) \o "h") ELSE parts1
        parts3 == IF minutes # 0 \/ parts2 = <<>>
                  THEN Append(parts2, ToString(minutes) \o "m") ELSE parts2
    IN  JoinSpace(parts3)

\* one call of format_timedelta
FormatTimedelta ==
    /\ \E delta_seconds \in TimedeltaInputs :
          uptime_out' = <<[delta_seconds |-> delta_seconds,
                           value |-> format_timedelta(delta_seconds)]>>
    /\ UNCHANGED <<sync_vars, upd_vars, notes_vars, fleet_vars, side_vars, overlap_vars, pass_view, lock_vars, refresh_vars, topic_out,
                   stable_pair_out, connect_vars>>

----------------------------------------------------------------------------
(* mqtt/manager.py: publish_autodiscovery_and_state run by two threads at   *)
(* once, the periodic publisher and a request, with no lock between them.   *)
(* A thread's pass is followed one step at a time: the fleet-wide publishes, *)
(* then one entry of the view per step, then the reading of stale_slugs,    *)
(* then for each stale slug its clearing and its pop.                        *)

PassThreads == {"periodic", "request"}

\* the views a pass is handed: every engine state of the model, no container
\* with a newer image apart from the application's own
OverlapViews == {ViewTable[g, {}] : g \in GenChoices}

\* a thread that is not inside publish_autodiscovery_and_state
IdlePass == [pc |-> "idle", view |-> <<>>, i |-> 0, current |-> {}, stale |-> {},
             clearing |-> ""]

\* the broker after the publishes given: it keeps the last retained payload
\* of a topic, and a retained empty payload removes what it kept
RECURSIVE Retain(_, _)
Retain(retained, pubs) ==
    IF pubs = <<>> THEN retained
    ELSE LET p == pubs[1]
             next ==
                 IF ~p.retain THEN retained
                 ELSE IF p.payload.empty
                 THEN [t \in (DOMAIN retained) \ {p.topic} |-> retained[t]]
                 ELSE [t \in (DOMAIN retained) \cup {p.topic} |->
                          IF t = p.topic THEN p.payload ELSE retained[t]]
         IN  Retain(next, Tail(pubs))

\* the publishes of the try blocks given, in order, when nothing raises
RECURSIVE PubsOf(_)
PubsOf(blocks) ==
    IF blocks = <<>> THEN <<>> ELSE blocks[1].pubs \o PubsOf(Tail(blocks))

\* what the steps of the overlapping passes leave as it is
overlap_rest == <<mqtt_client, setup_done, pref_data, pref_global, pref_doc, pass_ran,
                  pass_log, pre_map, cur_slugs, prev_slugs, skipped_self, synced,
                  last_msg, calls, collected, upd_vars, notes_vars, fleet_vars,
                  side_vars, uptime_out, pass_view, lock_vars, refresh_vars, topic_out,
                  stable_pair_out, connect_vars>>

\* a thread enters publish_autodiscovery_and_state(view); without a client it
\* returns at once
BeginPass(t) ==
    /\ setup_done
    /\ pass_pc[t].pc = "idle"
    /\ \E view \in OverlapViews :
          pass_pc' = [pass_pc EXCEPT ![t] =
                         IF mqtt_client
                         THEN [IdlePass EXCEPT !.pc = "status", !.view = view]
                         ELSE IdlePass]
    /\ UNCHANGED <<container_slug_map, broker_retained, overlap_rest>>

\* _publish_docker_status
StatusStep(t) ==
    /\ pass_pc[t].pc = "status"
    /\ broker_retained' =
           Retain(broker_retained, publish_docker_status(get_global_preferences(pref_global)))
    /\ pass_pc' = [pass_pc EXCEPT ![t].pc = "loop", ![t].i = 1]
    /\ UNCHANGED <<container_slug_map, overlap_rest>>

\* one turn of the loop over containers_info, or, the list exhausted, the
\* reading of stale_slugs
LoopStep(t) ==
    /\ pass_pc[t].pc = "loop"
    /\ LET p == pass_pc[t]
       IN  IF p.i > Len(p.view)
           THEN /\ pass_pc' = [pass_pc EXCEPT
                                  ![t].pc = "stale",
                                  ![t].stale = (DOMAIN container_slug_map) \ p.current]
                /\ UNCHANGED <<container_slug_map, broker_retained>>
           ELSE LET c == p.view[p.i]
                    slug == slug_of[<<c.name, c.short_id>>]
                IN  IF is_self[c.name]
                    THEN /\ pass_pc' = [pass_pc EXCEPT ![t].i = p.i + 1]
                         /\ UNCHANGED <<container_slug_map, broker_retained>>
                    ELSE /\ pass_pc' = [pass_pc EXCEPT ![t].i = p.i + 1,
                                                       ![t].current = p.current \cup {slug}]
                         /\ container_slug_map' =
                                [s \in (DOMAIN container_slug_map) \cup {slug} |->
                                    IF s = slug THEN c.id ELSE container_slug_map[s]]
                         /\ broker_retained' =
                                Retain(broker_retained,
                                       publish_discovery_for_container(
                                           c, get_with_defaults(pref_data, c.stable_id)))
    /\ UNCHANGED overlap_rest

\* the nine clearing publishes of one stale slug
ClearStale(t) ==
    /\ pass_pc[t].pc = "stale"
    /\ pass_pc[t].clearing = ""
    /\ \E stale_slug \in pass_pc[t].stale :
          /\ broker_retained' = Retain(broker_retained, PubsOf(StaleBlocks(stale_slug)))
          /\ pass_pc' = [pass_pc EXCEPT ![t].clearing = stale_slug,
                                        ![t].stale = pass_pc[t].stale \ {stale_slug}]
    /\ UNCHANGED <<container_slug_map, overlap_rest>>

\* self.container_slug_map.pop(stale_slug, None)
PopStale(t) ==
    /\ pass_pc[t].pc = "stale"
    /\ pass_pc[t].clearing # ""
    /\ container_slug_map' =
           [s \in (DOMAIN container_slug_map) \ {pass_pc[t].clearing} |->
               container_slug_map[s]]
    /\ pass_pc' = [pass_pc EXCEPT ![t].clearing = ""]
    /\ UNCHANGED <<broker_retained, overlap_rest>>

\* the loop over stale_slugs is over: the pass returns
EndPass(t) ==
    /\ pass_pc[t].pc = "stale"
    /\ pass_pc[t].clearing = ""
    /\ pass_pc[t].stale = {}
    /\ pass_pc' = [pass_pc EXCEPT ![t] = IdlePass]
    /\ UNCHANGED <<container_slug_map, broker_retained, overlap_rest>>

----------------------------------------------------------------------------
(* services/preferences.py: the mutators of the store called by several     *)
(* threads at once. Each thread makes one call, followed one step at a time: *)
(* the defaults applied to its arguments, the lock taken, the store          *)
(* changed, the document serialized, the file written, the lock released.    *)

LockThreads == {"t1", "t2", "t3"}

\* a thread that has not called the store
NoCall == [op |-> "", stable_id |-> "", state_enabled |-> TRUE, actions |-> EmptyDict,
           preferences |-> EmptyDict, valid_ids |-> {}]

\* the calls the threads make
MutatorCalls ==
    {[NoCall EXCEPT !.op = "set_preferences", !.stable_id = stable_id,
                    !.state_enabled = input.state, !.actions = input.actions] :
        stable_id \in PrefIds, input \in PrefInputs}
    \cup {[NoCall EXCEPT !.op = "set_global_preferences", !.preferences = input] :
             input \in GlobalInputs}
    \cup {[NoCall EXCEPT !.op = "prune", !.valid_ids = valid_ids] :
             valid_ids \in SUBSET PrefIds}

\* a lock that lets every thread in
lock_always_free(lock) == TRUE

\* threading.Lock: free when no thread holds it
lock_free(lock) == lock = ""

\* what the steps of the mutators leave as it is
lock_rest == <<mqtt_client, setup_done, container_slug_map, pass_ran, pass_log, pre_map,
               cur_slugs, prev_slugs, skipped_self, synced, last_msg, calls, collected,
               upd_vars, notes_vars, fleet_vars, side_vars, uptime_out, overlap_vars,
               pass_view, refresh_vars, topic_out, stable_pair_out, connect_vars>>

\* a thread calls a mutator: what precedes `with self._lock`
EnterMutator(t) ==
    /\ pref_thread[t].pc = "idle"
    /\ \E call \in MutatorCalls :
          pref_thread' = [pref_thread EXCEPT ![t].pc = "wait", ![t].call = call]
    /\ UNCHANGED <<pref_data, pref_global, pref_doc, pref_lock, lock_rest>>

\* with self._lock: __enter__
AcquireLock(t) ==
    /\ pref_thread[t].pc = "wait"
    /\ lock_free(pref_lock)
    /\ pref_lock' = t
    /\ pref_thread' = [pref_thread EXCEPT ![t].pc = "assign"]
    /\ UNCHANGED <<pref_data, pref_global, pref_doc, lock_rest>>

\* the statements that change the store: self._data[stable_id] = pref,
\* self._global = prefs, or the pops of prune, which does not save when it
\* removed nothing
ChangeStore(t) ==
    /\ pref_thread[t].pc = "assign"
    /\ LET call == pref_thread[t].call
       IN  IF call.op = "set_preferences"
           THEN /\ pref_data' = set_preferences(pref_data, pref_global, call.stable_id,
                                                call.state_enabled, call.actions).data
                /\ pref_thread' = [pref_thread EXCEPT ![t].pc = "dump"]
                /\ UNCHANGED pref_global
           ELSE IF call.op = "set_global_preferences"
           THEN /\ pref_global' = set_global_preferences(pref_data, call.preferences).global
                /\ pref_thread' = [pref_thread EXCEPT ![t].pc = "dump"]
                /\ UNCHANGED pref_data
           ELSE \E r \in {prune(pref_data, call.valid_ids)} :
                   /\ pref_data' = r.data
                   /\ pref_thread' =
                          [pref_thread EXCEPT ![t].pc = IF r.saved THEN "dump" ELSE "release"]
                   /\ UNCHANGED pref_global
    /\ UNCHANGED <<pref_doc, pref_lock, lock_rest>>

\* _save, json.dump: the store as it is now is serialized
DumpStore(t) ==
    /\ pref_thread[t].pc = "dump"
    /\ pref_thread' = [pref_thread EXCEPT ![t].pc = "write",
                                          ![t].payload = <<save(pref_data, pref_global)>>]
    /\ UNCHANGED <<pref_data, pref_global, pref_doc, pref_lock, lock_rest>>

\* _save, the end of `with open(...)`: the file holds what was serialized
WriteDocument(t) ==
    /\ pref_thread[t].pc = "write"
    /\ pref_doc' = pref_thread[t].payload
    /\ pref_thread' = [pref_thread EXCEPT ![t].pc = "release"]
    /\ UNCHANGED <<pref_data, pref_global, pref_lock, lock_rest>>

\* with self._lock: __exit__, and the call returns
ReleaseLock(t) ==
    /\ pref_thread[t].pc = "release"
    /\ pref_lock' = ""
    /\ pref_thread' = [pref_thread EXCEPT ![t].pc = "done"]
    /\ UNCHANGED <<pref_data, pref_global, pref_doc, lock_rest>>

NextLock ==
    \E t \in LockThreads :
        \/ EnterMutator(t)
        \/ AcquireLock(t)
        \/ ChangeStore(t)
        \/ DumpStore(t)
        \/ WriteDocument(t)
        \/ ReleaseLock(t)

----------------------------------------------------------------------------
(* services/docker.py: refresh_overview_cache run by the refresher thread   *)
(* and by a request at once. The engine query is made before the lock is    *)
(* taken; the two assignments are made under it.                            *)

RefreshThreads == {"overview_refresher", "request"}

\* the engine answers this many queries
MaxQueries == 4

\* a thread that is not inside refresh_overview_cache
NoRefresh == [pc |-> "idle", stacks |-> <<>>, query |-> 0, queried_at |-> 0]

\* what the steps of the two refreshes leave as it is
refresh_rest == <<engine_up, engine_fleet, overview_thread, refresher_pc, caller_pc,
                  publisher_pc, refreshed, fleet_out, now, update_preferences,
                  remote_cache, remote_cache_ts, upd_op, upd_out, sync_vars, notes_vars,
                  side_vars, uptime_out, overlap_vars, pass_view, lock_vars, topic_out,
                  stable_pair_out, connect_vars>>

\* stacks = self.list_stacks_overview(): when the query raises the call ends
\* and nothing is stored
QueryOverview(t) ==
    /\ refresh_thread[t].pc = "idle"
    /\ query_count < MaxQueries
    /\ query_count' = query_count + 1
    /\ refresh_thread' =
           [refresh_thread EXCEPT ![t] =
               IF list_stacks_overview.raised THEN NoRefresh
               ELSE [pc |-> "queried", stacks |-> list_stacks_overview.stacks,
                     query |-> query_count + 1, queried_at |-> now]]
    /\ UNCHANGED <<overview_cache, overview_cache_ts, cache_query, refresh_rest>>

\* with self._lock: overview_cache = stacks; overview_cache_ts = time.time()
StoreOverview(t) ==
    /\ refresh_thread[t].pc = "queried"
    /\ overview_cache' = refresh_thread[t].stacks
    /\ overview_cache_ts' = now
    /\ cache_query' = [query |-> refresh_thread[t].query,
                       queried_at |-> refresh_thread[t].queried_at]
    /\ refresh_thread' = [refresh_thread EXCEPT ![t] = NoRefresh]
    /\ UNCHANGED <<query_count, refresh_rest>>

----------------------------------------------------------------------------
(* mqtt/manager.py: the command topic a button config advertises, handed    *)
(* back to _on_message.                                                      *)

\* the base topics the manager is configured with: the one of the model, the
\* default of app.py, and two made of several segments
BaseTopics ==
    {base_topic_chars,
     Text_d2ha_server,
     <<"h","o","m","e","/","d","2","h">>,
     <<"a","/","b","/","c">>}

\* the six actions of the buttons, as the characters of a topic segment
ActionChars ==
    [start |-> Chars_start, pause |-> <<"p","a","u","s","e">>,
     stop |-> <<"s","t","o","p">>, restart |-> <<"r","e","s","t","a","r","t">>,
     delete |-> Chars_delete, full_update |-> Chars_full_update]

\* cmd_topic = f"{self.base_topic}/{slug}/set/{action}"
command_topic(configured, slug, action) ==
    configured \o <<"/">> \o slug \o <<"/">> \o Text_set \o <<"/">> \o action

\* the slugs and actions of the command topics the passes advertise: those of
\* the containers' buttons and the two fleet-wide ones
AdvertisedCommands ==
    {[slug |-> SlugChars(k, g), action |-> ActionChars[a]] :
        k \in (DOMAIN ContainerNames) \ OwnKeys, g \in 1..MaxGen, a \in AVAILABLE_ACTIONS}
    \cup {[slug |-> Chars_docker, action |-> Chars_delete_unused_images],
          [slug |-> Chars_docker, action |-> Chars_full_update_all]}

\* a manager configured with a base topic advertises a command topic, a hub
\* publishes on it, and _on_message is called with that topic
CommandRoundTrip ==
    /\ \E configured \in BaseTopics, command \in AdvertisedCommands :
          \E topic \in {command_topic(configured, command.slug, command.action)} :
             topic_out' = <<[base_topic |-> Str(configured),
                             slug |-> Str(command.slug),
                             action |-> Str(command.action),
                             topic |-> Str(topic),
                             routed |-> on_message_route(configured, topic)]>>
    /\ UNCHANGED <<sync_vars, upd_vars, notes_vars, fleet_vars, side_vars, uptime_out,
                   overlap_vars, pass_view, lock_vars, refresh_vars, stable_pair_out, connect_vars>>

----------------------------------------------------------------------------
(* services/utils.py: build_stable_id on two containers of one fleet view.  *)

\* the "stack" field of an entry of the view: a compose project, or
\* "_no_stack" for a container without one (_get_stack_name)
ViewStacks ==
    {<<"a">>, <<"a","_","b">>, Text_no_stack, <<"_">> \o Text_no_stack}

\* container names; the engine has no two containers with one name
ViewNames == {<<"c">>, <<"b","_","c">>, <<"b",".","c">>, <<"b","c">>}

\* build_stable_id(c) for two entries of one view
BuildStableIdPair ==
    /\ \E stack1 \in ViewStacks, stack2 \in ViewStacks, name1 \in ViewNames :
       \E name2 \in ViewNames \ {name1} :
          stable_pair_out' =
              <<[stack |-> stack1, name |-> name1,
                 value |-> Str(build_stable_id(stack1, name1))],
                [stack |-> stack2, name |-> name2,
                 value |-> Str(build_stable_id(stack2, name2))]>>
    /\ UNCHANGED <<sync_vars, upd_vars, notes_vars, fleet_vars, side_vars, uptime_out,
                   overlap_vars, pass_view, lock_vars, refresh_vars, topic_out, connect_vars>>

Init ==
    /\ uptime_out = <<>>
    /\ broker_reachable = FALSE
    /\ mqtt_config = <<>>
    /\ pass_count = 0
    /\ connect_out = <<>>
    /\ stable_pair_out = <<>>
    /\ topic_out = <<>>
    /\ refresh_thread = [t \in RefreshThreads |-> NoRefresh]
    /\ query_count = 0
    /\ cache_query = [query |-> 0, queried_at |-> 0]
    /\ pref_lock = ""
    /\ pref_thread = [t \in LockThreads |-> [pc |-> "idle", call |-> NoCall, payload |-> <<>>]]
    /\ broker_retained = EmptyDict
    /\ pass_view = <<>>
    /\ pass_pc = [t \in PassThreads |-> IdlePass]
    /\ InitWrite
    /\ stable_id_out = <<>>
    /\ engine_networks = DOMAIN NetworkNames
    /\ network_out = <<>>
    /\ InitHistory
    /\ pref_doc = <<>>
    /\ pref_out = <<>>
    /\ mqtt_client = FALSE
    /\ setup_done = FALSE
    /\ container_slug_map = EmptyDict
    /\ pref_data = EmptyDict
    /\ pref_global = DEFAULT_GLOBAL_PREFERENCES
    /\ InitNotes
    /\ InitFleet
    /\ pass_ran = FALSE
    /\ pass_log = <<>>
    /\ pre_map = EmptyDict
    /\ cur_slugs = {}
    /\ prev_slugs = <<>>
    /\ skipped_self = {}
    /\ synced = FALSE
    /\ last_msg = <<>>
    /\ calls = <<>>
    /\ collected = <<>>
    /\ InitUpdates

\* the step ran no pass
NoPass ==
    /\ pass_ran' = FALSE
    /\ pass_log' = <<>>
    /\ pre_map' = EmptyDict
    /\ prev_slugs' = <<>>
    /\ skipped_self' = {}
    /\ UNCHANGED <<container_slug_map, cur_slugs, synced>>

\* the step ran publish_autodiscovery_and_state(view) with a client held
RunPass(view, faultsets) ==
    \E faults \in faultsets, order \in Orders(stale_slugs(view, container_slug_map)) :
        /\ container_slug_map' = MapAfterPass(view, container_slug_map)
        /\ pass_ran' = TRUE
        /\ pass_log' = PassLog(view, pref_data, pref_global, faults, order)
        /\ pre_map' = container_slug_map
        /\ cur_slugs' = current_slugs(view)
        /\ prev_slugs' = IF synced THEN <<cur_slugs>> ELSE <<>>
        /\ skipped_self' = SkippedNames(view)
        /\ synced' = TRUE

\* the transport never raises: paho's publish() raises only for a malformed
\* topic or payload
NoFaults == {{}}

\* MqttManager.setup, run once by app.py: the client is kept when a broker is
\* configured and the connect succeeds
Setup ==
    /\ ~setup_done
    /\ setup_done' = TRUE
    /\ \E connected \in BOOLEAN : mqtt_client' = connected
    /\ NoPass
    /\ last_msg' = <<>>
    /\ calls' = <<>>
    /\ collected' = <<>>
    /\ UNCHANGED <<pref_data, pref_global, pref_doc>>
    /\ UNCHANGED <<ext_vars, side_vars, upd_vars, notes_vars, fleet_vars>>

\* publish_autodiscovery_and_state(view), from the periodic publisher or from
\* a request
Pass ==
    /\ setup_done
    /\ \E view \in Views :
          IF mqtt_client THEN RunPass(view, NoFaults) ELSE NoPass
    /\ last_msg' = <<>>
    /\ calls' = <<>>
    /\ collected' = <<>>
    /\ UNCHANGED <<mqtt_client, setup_done, pref_data, pref_global, pref_doc>>
    /\ UNCHANGED <<ext_vars, side_vars, upd_vars, notes_vars, fleet_vars>>

\* AutodiscoveryPreferences.set_preferences
SetPreferences ==
    /\ \E stable_id \in StableIds, input \in PrefInputs :
          \E r \in {set_preferences(pref_data, pref_global, stable_id,
                                    input.state, input.actions)} :
             /\ pref_data' = r.data
             /\ pref_doc' = r.doc
    /\ NoPass
    /\ last_msg' = <<>>
    /\ calls' = <<>>
    /\ collected' = <<>>
    /\ UNCHANGED <<mqtt_client, setup_done, pref_global>>
    /\ UNCHANGED <<ext_vars, side_vars, upd_vars, notes_vars, fleet_vars>>

\* AutodiscoveryPreferences.set_global_preferences
SetGlobalPreferences ==
    /\ \E input \in GlobalInputs :
          \E r \in {set_global_preferences(pref_data, input)} :
             /\ pref_global' = r.global
             /\ pref_doc' = r.doc
    /\ NoPass
    /\ last_msg' = <<>>
    /\ calls' = <<>>
    /\ collected' = <<>>
    /\ UNCHANGED <<mqtt_client, setup_done, pref_data>>
    /\ UNCHANGED <<ext_vars, side_vars, upd_vars, notes_vars, fleet_vars>>

\* AutodiscoveryPreferences.prune
Prune ==
    /\ \E valid_ids \in PruneInputs :
          \E r \in {prune(pref_data, valid_ids)} :
             /\ pref_data' = r.data
             /\ pref_doc' = IF r.saved THEN <<save(r.data, pref_global)>> ELSE pref_doc
    /\ NoPass
    /\ last_msg' = <<>>
    /\ calls' = <<>>
    /\ collected' = <<>>
    /\ UNCHANGED <<mqtt_client, setup_done, pref_global>>
    /\ UNCHANGED <<ext_vars, side_vars, upd_vars, notes_vars, fleet_vars>>

\* What one recreate_container_with_latest_image leaves of the container: it
\* is kept (the lookup or the remove failed), gone (the pull or the create
\* failed after the remove) or there under a new id
RecreateOutcomes == {"kept", "gone", "new"}

\* the containers a list of recreate calls is made on, gens being the engine
\* state the ids were collected in
Recreated(gens, recreate) ==
    {k \in DOMAIN ContainerNames :
        /\ gens[k] > 0
        /\ \E i \in 1..Len(recreate) : recreate[i].id = EngineIdOf(k, gens[k])}

\* the engine state after the recreate calls came out as out
GensAfter(gens, out) ==
    [k \in DOMAIN ContainerNames |->
        IF k \notin DOMAIN out \/ out[k] = "kept" THEN gens[k]
        ELSE IF out[k] = "gone" THEN 0
        ELSE gens[k] + 1]

\* a recreated container runs the newest image
AvailAfter(avail, out) == avail \ {k \in DOMAIN out : out[k] = "new"}

\* _full_update_all_containers up to its pass: the calls it makes, the view
\* its first collect returned with what came of each recreate, and the view
\* its second collect returns. The first collect raises and _on_message
\* logs it; or it returns some view of the fleet, each container with an
\* update is recreated, the cache is refreshed, and the second collect raises
\* or returns the fleet as the recreate calls left it
FullUpdateRuns ==
    {[calls |-> <<>>, first |-> <<>>, collected |-> FALSE, view |-> <<>>]}
        \cup UNION
            {LET recreate == full_update_calls(ViewTable[g1, a1], 1)
                 made == recreate \o <<Call("refresh_overview_cache", "", "")>>
                 outs == {out \in [Recreated(g1, recreate) -> RecreateOutcomes] :
                             GensAfter(g1, out) \in GenChoices}
                 First(out) == <<[view |-> ViewTable[g1, a1], outcomes |-> out]>>
             IN  {[calls |-> made, first |-> First(out), collected |-> FALSE,
                   view |-> <<>>] : out \in outs}
                     \cup {[calls |-> made, first |-> First(out), collected |-> TRUE,
                            view |-> ViewTable[GensAfter(g1, out), AvailAfter(a1, out)]] :
                              out \in outs} :
                g1 \in GenChoices, a1 \in AvailChoices}

\* the runs whose second collect returns a view
FullUpdateRunsTo ==
    [view \in Views |-> {r \in FullUpdateRuns : r.collected /\ r.view = view}]

\* the tail with the refresh and the pass in one try block
resynchronizes_unless_refresh_failed(refresh_raised, updated) ==
    ~refresh_raised /\ updated

\* _full_update_all_containers, the tail: the refresh has a try block of its
\* own, and the pass runs when the second collect returned
resynchronizes(refresh_raised, updated) == updated

\* what a run leaves to look at, the refresh having raised or not
FullUpdateDone(run, refresh_raised) ==
    IF run.first = <<>> THEN <<>>
    ELSE <<[view |-> run.first[1].view,
            outcomes |-> run.first[1].outcomes,
            refresh_raised |-> refresh_raised,
            updated |-> IF run.collected THEN <<run.view>> ELSE <<>>]>>

\* _full_update_all_containers: collect, recreate, refresh, collect, pass
FullUpdateAll ==
    \/ \E run \in FullUpdateRuns, refresh_raised \in BOOLEAN :
          /\ ~resynchronizes(refresh_raised, run.collected /\ mqtt_client)
          /\ calls' = run.calls
          /\ collected' = FullUpdateDone(run, refresh_raised)
          /\ NoPass
    \/ /\ mqtt_client
       /\ \E view \in Views :
             /\ RunPass(view, NoFaults)
             /\ \E run \in FullUpdateRunsTo[view], refresh_raised \in BOOLEAN :
                   /\ resynchronizes(refresh_raised, TRUE)
                   /\ calls' = run.calls
                   /\ collected' = FullUpdateDone(run, refresh_raised)

\* MqttManager._on_message, called by the client's network loop
OnMessage ==
    /\ mqtt_client
    /\ \E topic \in MessageTopics :
          LET r == routed[topic]
          IN  /\ last_msg' = topic
              /\ CASE r.kind = "ignored" ->
                          calls' = <<>> /\ collected' = <<>> /\ NoPass
                   [] r.kind = "delete_unused_images" ->
                          /\ calls' = <<Call("remove_unused_images", "", "")>>
                          /\ collected' = <<>>
                          /\ NoPass
                   [] r.kind = "full_update_all" -> FullUpdateAll
                   [] r.kind = "container" ->
                          /\ calls' = dispatch_container_command(container_slug_map,
                                                                 r.slug, r.action)
                          /\ collected' = <<>>
                          /\ NoPass
    /\ UNCHANGED <<mqtt_client, setup_done, pref_data, pref_global, pref_doc>>
    /\ UNCHANGED <<ext_vars, side_vars, upd_vars, notes_vars, fleet_vars>>

Next == Setup \/ Pass \/ SetPreferences \/ SetGlobalPreferences \/ Prune \/ OnMessage

Spec == Init /\ [][Next]_vars

\* the update check on its own
SpecUpdates == Init /\ [][NextUpdates]_vars

\* the view collect_containers_info_for_updates returns for the fleet of the
\* engine: its containers and, unless it has none, the application's own
PublisherView ==
    ViewTable[[k \in DOMAIN ContainerNames |->
                  IF engine_fleet = <<>> THEN 0
                  ELSE IF k \in OwnKeys THEN 1
                  ELSE IF \E i \in 1..Len(engine_fleet) : engine_fleet[i] = k THEN 1
                  ELSE 0],
              {}]

\* start_periodic_publisher, called by app.py after setup with a broker
\* configured
StartPeriodicPublisher ==
    /\ setup_done
    /\ publisher_pc = "none"
    /\ publisher_pc' = "run"
    /\ fleet_out' = <<>>
    /\ UNCHANGED <<engine_up, engine_fleet, overview_cache, overview_cache_ts,
                   overview_thread, refresher_pc, caller_pc, refreshed>>
    /\ UNCHANGED <<ext_vars, side_vars, sync_vars, upd_vars, notes_vars>>

\* _periodic_publisher, one turn of the loop up to the sleep: the collect,
\* which raises when the engine does not answer, the pass, and the log of
\* what they raise
PublisherRun ==
    /\ publisher_pc = "run"
    /\ IF engine_up /\ mqtt_client THEN RunPass(PublisherView, NoFaults) ELSE NoPass
    /\ publisher_pc' = loop_turn(~engine_up)
    /\ last_msg' = <<>>
    /\ calls' = <<>>
    /\ collected' = <<>>
    /\ fleet_out' = FleetOut("mqtt_publisher", ~engine_up, <<>>, TRUE,
                             overview_cache, overview_cache_ts)
    /\ UNCHANGED <<mqtt_client, setup_done, pref_data, pref_global, pref_doc>>
    /\ UNCHANGED <<engine_up, engine_fleet, overview_cache, overview_cache_ts,
                   overview_thread, refresher_pc, caller_pc, refreshed>>
    /\ UNCHANGED <<ext_vars, side_vars, upd_vars, notes_vars>>

\* _periodic_publisher, the sleep is over
PublisherWake ==
    /\ publisher_pc = "sleep"
    /\ publisher_pc' = "run"
    /\ fleet_out' = <<>>
    /\ UNCHANGED <<engine_up, engine_fleet, overview_cache, overview_cache_ts,
                   overview_thread, refresher_pc, caller_pc, refreshed>>
    /\ UNCHANGED <<ext_vars, side_vars, sync_vars, upd_vars, notes_vars>>

\* the thread app.py calls start_overview_refresher from
AppCaller == CHOOSE c \in Callers : \A d \in Callers : c <= d

NextLoops ==
    \/ EngineChange
    \/ Setup
    \/ StartCheck(AppCaller)
    \/ StartThread(AppCaller)
    \/ \E t \in Threads : RefresherRun(t)
    \/ \E t \in Threads : RefresherWake(t)
    \/ StartPeriodicPublisher
    \/ PublisherRun
    \/ PublisherWake

\* a turn of the mqtt_publisher thread as the scheduler sees it: the thread
\* leaves the body of its loop
PublisherTurn == publisher_pc = "run" /\ publisher_pc' = loop_turn(~engine_up)

\* The two background loops as app.py starts them, under a fair scheduler: a
\* thread that can take its next step takes it
SpecLoops ==
    /\ Init
    /\ [][NextLoops]_vars
    /\ \A t \in Threads : WF_vars(RefresherRun(t)) /\ WF_vars(RefresherWake(t))
    /\ WF_publisher_pc(PublisherTurn)
    /\ WF_vars(PublisherWake)

\* the release-notes lookup on its own
SpecNotes == Init /\ [][NextNotes]_vars

\* the fleet cache, its refresher threads and its readers
SpecFleet == Init /\ [][NextFleet]_vars

\* the publish history: the setup, the calls of _publish and the readers
NextHistory == Setup \/ Publish \/ GetPublishHistory

SpecHistory == Init /\ [][NextHistory]_vars

\* the preference store alone
SpecPrefs == Init /\ [][NextPrefs]_vars

\* build_stable_id alone
SpecIds == Init /\ [][BuildStableId]_vars

\* the removal of networks alone
SpecNetworks == Init /\ [][RemoveNetwork]_vars

\* the destructive actions alone
SpecWrite == Init /\ [][NextWrite]_vars

\* the calls of format_timedelta
SpecUptime == Init /\ [][FormatTimedelta]_vars

NextOverlap ==
    \/ Setup
    \/ \E t \in PassThreads :
          \/ BeginPass(t)
          \/ StatusStep(t)
          \/ LoopStep(t)
          \/ ClearStale(t)
          \/ PopStale(t)
          \/ EndPass(t)

\* two threads inside publish_autodiscovery_and_state
SpecOverlap == Init /\ [][NextOverlap]_vars

\* publish_autodiscovery_and_state(view) run by one thread from entry to
\* return, no other pass beside it, the view it was handed kept
PassAlone ==
    /\ setup_done
    /\ \E view \in Views :
          /\ IF mqtt_client THEN RunPass(view, NoFaults) ELSE NoPass
          /\ pass_view' = <<view>>
    /\ last_msg' = <<>>
    /\ calls' = <<>>
    /\ collected' = <<>>
    /\ UNCHANGED <<mqtt_client, setup_done, pref_data, pref_global, pref_doc>>
    /\ UNCHANGED <<side_vars, upd_vars, notes_vars, fleet_vars, uptime_out, overlap_vars, lock_vars, refresh_vars, topic_out, stable_pair_out, connect_vars>>

NextAlone == Setup \/ PassAlone

SpecAlone == Init /\ [][NextAlone]_vars

\* the mutators of the preference store on three threads
SpecLock == Init /\ [][NextLock]_vars

NextRefresh ==
    \/ EngineChange
    \/ FleetTick
    \/ \E t \in RefreshThreads : QueryOverview(t)
    \/ \E t \in RefreshThreads : StoreOverview(t)

\* the refresher thread and a request inside refresh_overview_cache
SpecRefresh == Init /\ [][NextRefresh]_vars

\* advertised command topics handed to _on_message
SpecTopics == Init /\ [][CommandRoundTrip]_vars

\* build_stable_id on two entries of a view
SpecIdPairs == Init /\ [][BuildStableIdPair]_vars

----------------------------------------------------------------------------
(* mqtt/manager.py: the connect of setup() against a broker that comes and  *)
(* goes, and the passes that follow it                                      *)

\* the most passes after setup
MaxPasses == 2

\* what setup() finds configured: the paho library imported, a broker named
MqttConfigs == [library : BOOLEAN, broker : BOOLEAN]

\* setup() with the client kept from before the connect
setup_client_before_connect(library, broker, connects) == library /\ broker

\* setup(): mqtt_client after it; nothing is tried without the library or
\* without a broker, and a connect that raises leaves None
setup_client(library, broker, connects) == library /\ broker /\ connects

\* the calls of _publish one pass makes, one after the other: nothing without
\* a client; with one, every attempt is appended, raised or not, and the deque
\* keeps the newest publish_history_maxlen records
record_attempts(history, client, attempts, clock) ==
    IF ~client THEN history
    ELSE LET appended ==
                 history \o [i \in 1..Len(attempts) |->
                                HistoryRecord(attempts[i], clock + i)]
         IN  IF Len(appended) <= publish_history_maxlen THEN appended
             ELSE SubSeq(appended, Len(appended) - publish_history_maxlen + 1,
                         Len(appended))

\* the broker starts or stops accepting connections
BrokerChange ==
    /\ broker_reachable' = ~broker_reachable
    /\ UNCHANGED <<mqtt_config, pass_count, connect_out>>
    /\ UNCHANGED <<sync_vars, upd_vars, notes_vars, fleet_vars, side_vars, uptime_out,
                   overlap_vars, pass_view, lock_vars, refresh_vars, topic_out,
                   stable_pair_out>>

\* app.py: mqtt_manager.setup(), once, against the broker as it is then
SetupBroker ==
    /\ ~setup_done
    /\ setup_done' = TRUE
    /\ \E config \in MqttConfigs :
          /\ mqtt_config' = <<config>>
          /\ mqtt_client' = setup_client(config.library, config.broker, broker_reachable)
          /\ connect_out' = <<[op |-> "setup", thread |-> "main",
                               reachable |-> broker_reachable,
                               client |-> mqtt_client']>>
    /\ NoPass
    /\ last_msg' = <<>>
    /\ calls' = <<>>
    /\ collected' = <<>>
    /\ UNCHANGED <<pref_data, pref_global, pref_doc, broker_reachable, pass_count>>
    /\ UNCHANGED <<upd_vars, notes_vars, fleet_vars, side_vars, uptime_out,
                   overlap_vars, pass_view, lock_vars, refresh_vars, topic_out,
                   stable_pair_out>>

\* publish_autodiscovery_and_state on the periodic publisher, which
\* start_periodic_publisher starts only with a broker named, or on a request;
\* every _publish of the pass goes through _record_publish
PassConnect ==
    /\ setup_done
    /\ pass_count < MaxPasses
    /\ pass_count' = pass_count + 1
    /\ \E view \in OverlapViews, thread \in PassThreads :
          /\ thread = "periodic" => mqtt_config[1].library /\ mqtt_config[1].broker
          /\ IF mqtt_client THEN RunPass(view, NoFaults) ELSE NoPass
          /\ pass_view' = <<view>>
          /\ \E history \in {record_attempts(publish_history, mqtt_client, pass_log',
                                             publish_clock)} :
                publish_history' = history
          /\ publish_clock' = publish_clock + Len(pass_log')
          /\ connect_out' = <<[op |-> "pass", thread |-> thread,
                               reachable |-> broker_reachable,
                               client |-> mqtt_client]>>
    /\ last_msg' = <<>>
    /\ calls' = <<>>
    /\ collected' = <<>>
    /\ UNCHANGED <<mqtt_client, setup_done, pref_data, pref_global, pref_doc,
                   broker_reachable, mqtt_config, history_out>>
    /\ UNCHANGED <<upd_vars, notes_vars, fleet_vars, write_vars, prefs_vars, ids_vars,
                   net_vars, uptime_out, overlap_vars, lock_vars, refresh_vars,
                   topic_out, stable_pair_out>>

NextConnect == BrokerChange \/ SetupBroker \/ PassConnect

\* setup() and the passes after it while the broker comes and goes
SpecConnect == Init /\ [][NextConnect]_vars

TypeOK ==
    /\ mqtt_client \in BOOLEAN
    /\ pass_ran \in BOOLEAN
    /\ DOMAIN pref_data \subseteq StableIds

\* ------------------------------------------------------------------------
\* The entities of the wire contract and their topics

\* the status sensor of a slug: its config, state and attributes topics
SensorTopics(slug) ==
    {discovery_prefix \o "/sensor/" \o node_id \o "/" \o slug \o "_status/config",
     base_topic \o "/" \o slug \o "/state",
     base_topic \o "/" \o slug \o "/attributes"}

\* the config topic of one action button of a slug
ButtonTopic(slug, action) ==
    discovery_prefix \o "/button/" \o node_id \o "/" \o slug \o "_" \o action
        \o "/config"

\* the nine topics of a slug's entities
EntityTopics(slug) ==
    SensorTopics(slug) \cup {ButtonTopic(slug, a) : a \in AVAILABLE_ACTIONS}

\* the engine status sensor
EngineTopics ==
    {discovery_prefix \o "/binary_sensor/" \o node_id \o "/docker_status/config",
     base_topic \o "/docker/state",
     base_topic \o "/docker/attributes"}

\* the updates-pending sensor
UpdatesTopics ==
    {discovery_prefix \o "/sensor/" \o node_id \o "/docker_updates/config",
     base_topic \o "/docker/updates/state",
     base_topic \o "/docker/updates/attributes"}

DeleteUnusedImagesTopics ==
    {discovery_prefix \o "/button/" \o node_id \o "/docker_delete_unused_images/config"}

FullUpdateAllTopics ==
    {discovery_prefix \o "/button/" \o node_id \o "/docker_full_update_all/config"}

\* the records of the last pass on a topic
RecordsOn(topic) == {i \in 1..Len(pass_log) : pass_log[i].topic = topic}

\* the last pass cleared the topic: an empty retained payload was published
\* on it, and nothing else
Cleared(topic) ==
    /\ RecordsOn(topic) # {}
    /\ \A i \in RecordsOn(topic) : pass_log[i].payload.empty /\ pass_log[i].retain

\* the last pass published the topic with content
Filled(topic) ==
    /\ RecordsOn(topic) # {}
    /\ \A i \in RecordsOn(topic) : ~pass_log[i].payload.empty

\* the containers of the model that are the program's own, by the rule of
\* the wire contract: the lower-cased name, or one of its tokens, is the node
\* id, the base topic, "d2ha_server" or "d2ha"
OwnIdentifiers == {node_id_chars, base_topic_chars, Text_d2ha_server, Text_d2ha}

OwnByName ==
    {k \in DOMAIN ContainerNames :
        LET name == Lower(ContainerNames[k])
        IN  \/ name \in OwnIdentifiers
            \/ NameParts(name) \cap OwnIdentifiers # {}}

\* the slugs the own containers would have
OwnSlugs == {Str(SlugChars(k, g)) : k \in OwnByName, g \in 1..MaxGen}

\* the other containers, each with its slug and its stable id
Exposed ==
    {[slug |-> Str(SlugChars(k, g)),
      stable_id |-> Str(build_stable_id(StackOf(k), ContainerNames[k]))] :
        k \in (DOMAIN ContainerNames) \ OwnByName, g \in 1..MaxGen}

\* the command topics <base>/<slug>/set/<action> of the model's containers
ContainerCommands ==
    {[topic |-> JoinSlash(<<base_topic_chars, SlugChars(k, g), Text_set, a>>),
      slug |-> Str(SlugChars(k, g)),
      action |-> Str(Lower(a))] :
        k \in DOMAIN ContainerNames, g \in 1..MaxGen,
        a \in {Chars_start, Chars_delete, Chars_full_update, Chars_STOP, Chars_bogus}}

\* ------------------------------------------------------------------------
\* C1: a slug that was current in one pass and is absent from the view of
\* the next pass has its sensor config, state and attributes topics and its
\* six button config topics cleared by that next pass, and is no key of the
\* slug map after it.
C1_StaleCleanup ==
    (pass_ran /\ prev_slugs # <<>>) =>
        \A s \in prev_slugs[1] \ cur_slugs :
            /\ \A t \in EntityTopics(s) : Cleared(t)
            /\ s \notin DOMAIN container_slug_map

\* a pass that found a slug of the pass before it gone
C1_Witness ==
    /\ pass_ran
    /\ prev_slugs # <<>>
    /\ prev_slugs[1] \ cur_slugs # {}
    /\ cur_slugs # {}

\* C2: a container that is the program's own by its name is never in the
\* current-slug set, never a key of the slug map, and no pass publishes on
\* any topic of its slug.
C2_SelfExclusion ==
    \A s \in OwnSlugs :
        /\ s \notin cur_slugs
        /\ s \notin DOMAIN container_slug_map
        /\ \A t \in EntityTopics(s) : RecordsOn(t) = {}

\* a pass over a view that holds the three own containers and another one
C2_Witness ==
    /\ pass_ran
    /\ skipped_self = {ContainerNames[k] : k \in OwnByName}
    /\ OwnByName = {"alias", "node", "topic"}
    /\ cur_slugs # {}

\* C3: a pass over the view of the pass before it clears no stale slug and
\* leaves the slug map as it was.
C3_Idempotent ==
    (pass_ran /\ prev_slugs = <<cur_slugs>>) =>
        /\ \A i \in 1..Len(pass_log) : pass_log[i].phase # "stale"
        /\ container_slug_map = pre_map

\* a second pass over the same, non-empty view
C3_Witness ==
    /\ pass_ran
    /\ prev_slugs = <<cur_slugs>>
    /\ Cardinality(cur_slugs) = 2
    /\ pass_log # <<>>

\* C4: the executor is called for an inbound command only when the slug of
\* its topic is a key of the slug map as the message is handled, and then on
\* the id the map holds for it; for a slug the map does not hold nothing is
\* called, and a step that handles no message calls nothing.
C4_Routing ==
    /\ last_msg = <<>> => calls = <<>>
    /\ \A m \in ContainerCommands :
          last_msg = m.topic =>
              IF m.slug \in DOMAIN container_slug_map
              THEN \A i \in 1..Len(calls) : calls[i].id = container_slug_map[m.slug]
              ELSE calls = <<>>

\* a command executed on the id the map holds, beside a slug the map does
\* not hold
C4_Witness ==
    /\ \E m \in ContainerCommands :
          /\ last_msg = m.topic
          /\ m.slug \in DOMAIN container_slug_map
          /\ calls = <<Call("apply_simple_action", container_slug_map[m.slug], "start")>>

\* the two fleet-wide command topics
DeleteUnusedImagesCommand ==
    JoinSlash(<<base_topic_chars, Chars_docker, Text_set, Chars_delete_unused_images>>)

FullUpdateAllCommand ==
    JoinSlash(<<base_topic_chars, Chars_docker, Text_set, Chars_full_update_all>>)

\* the flag the preferences hold for an action of a container, all-true for
\* a stable id they do not know
ActionFlag(stable_id, action) ==
    DictGet(DictGet(DictGet(pref_data, stable_id, EmptyDict), "actions", EmptyDict),
            action, TRUE)

StateFlag(stable_id) == DictGet(DictGet(pref_data, stable_id, EmptyDict), "state", TRUE)

GlobalFlag(name) == DictGet(pref_global, name, TRUE)

\* C5 as claimed: an inbound command for an action whose flag is false in
\* the container's preferences, or a fleet-wide command whose global flag is
\* false, calls nothing.
C5_TogglesGateCommands ==
    /\ \A m \in ContainerCommands, e \in Exposed :
          (/\ last_msg = m.topic
           /\ e.slug = m.slug
           /\ m.action \in AVAILABLE_ACTIONS
           /\ ~ActionFlag(e.stable_id, m.action)) => calls = <<>>
    /\ (last_msg = DeleteUnusedImagesCommand /\ ~GlobalFlag("delete_unused_images"))
          => calls = <<>>
    /\ (last_msg = FullUpdateAllCommand /\ ~GlobalFlag("full_update_all"))
          => calls = <<>>

\* C5 as amended: the toggles do not gate inbound commands. A command for a
\* known action on a container whose slug the map holds calls the executor
\* on that container, and the delete_unused_images command calls it, whatever
\* the flags are.
C5_TogglesDoNotGateCommands ==
    /\ \A m \in ContainerCommands :
          (/\ last_msg = m.topic
           /\ m.slug \in DOMAIN container_slug_map
           /\ m.action \in AVAILABLE_ACTIONS) =>
              /\ Len(calls) = 1
              /\ calls[1].id = container_slug_map[m.slug]
              /\ calls[1].op = (IF m.action = "delete" THEN "remove_container"
                                ELSE IF m.action = "full_update"
                                     THEN "recreate_container_with_latest_image"
                                ELSE "apply_simple_action")
    /\ last_msg = DeleteUnusedImagesCommand
          => calls = <<Call("remove_unused_images", "", "")>>

\* a full_update command executed on a container whose full_update flag is
\* false
C5_Witness ==
    \E m \in ContainerCommands, e \in Exposed :
        /\ last_msg = m.topic
        /\ e.slug = m.slug
        /\ m.action = "full_update"
        /\ ~ActionFlag(e.stable_id, "full_update")
        /\ m.slug \in DOMAIN container_slug_map
        /\ calls = <<Call("recreate_container_with_latest_image",
                          container_slug_map[m.slug], "")>>

\* C6: in a pass, for every container it does not skip, the three topics of
\* the status sensor get content if the state flag of the container's
\* preferences is true and are cleared otherwise, and each button's config
\* topic gets content if the action's flag is true and is cleared otherwise;
\* a stable id the preferences do not know counts as all-true.
C6_ContainerGating ==
    pass_ran =>
        \A e \in Exposed :
            e.slug \in cur_slugs =>
                /\ \A t \in SensorTopics(e.slug) :
                      IF StateFlag(e.stable_id) THEN Filled(t) ELSE Cleared(t)
                /\ \A a \in AVAILABLE_ACTIONS :
                      IF ActionFlag(e.stable_id, a)
                      THEN Filled(ButtonTopic(e.slug, a))
                      ELSE Cleared(ButtonTopic(e.slug, a))

\* a pass over two containers, one with its sensor switched off and one the
\* preferences do not know
C6_Witness ==
    /\ pass_ran
    /\ \E e \in Exposed :
          /\ e.slug \in cur_slugs
          /\ e.stable_id \in DOMAIN pref_data
          /\ ~StateFlag(e.stable_id)
    /\ \E e \in Exposed : e.slug \in cur_slugs /\ e.stable_id \notin DOMAIN pref_data

\* an entity's topics get content when the flag is true and are cleared when
\* it is false
Gated(topics, flag) == \A t \in topics : IF flag THEN Filled(t) ELSE Cleared(t)

\* C7 as claimed: each of the four fleet-wide entities, the engine status
\* sensor among them, is gated by a flag of the global preferences.
C7_FourGated ==
    pass_ran =>
        /\ \E name \in DOMAIN DEFAULT_GLOBAL_PREFERENCES :
              Gated(EngineTopics, GlobalFlag(name))
        /\ Gated(UpdatesTopics, GlobalFlag("updates_overview"))
        /\ Gated(DeleteUnusedImagesTopics, GlobalFlag("delete_unused_images"))
        /\ Gated(FullUpdateAllTopics, GlobalFlag("full_update_all"))

\* C7 as amended: the updates-pending sensor and the two fleet-wide buttons
\* are gated by their flags; the engine status sensor has no flag and every
\* pass publishes it with content.
C7_ThreeGated ==
    pass_ran =>
        /\ \A t \in EngineTopics : Filled(t)
        /\ Gated(UpdatesTopics, GlobalFlag("updates_overview"))
        /\ Gated(DeleteUnusedImagesTopics, GlobalFlag("delete_unused_images"))
        /\ Gated(FullUpdateAllTopics, GlobalFlag("full_update_all"))

\* a pass with the three flags false
C7_Witness ==
    /\ pass_ran
    /\ \A name \in DOMAIN DEFAULT_GLOBAL_PREFERENCES : ~GlobalFlag(name)
    /\ \A t \in EngineTopics : Filled(t)

\* the preferences with every flag true
AllOn == [state |-> TRUE, actions |-> [a \in AVAILABLE_ACTIONS |-> TRUE]]

\* the topics a sequence of publishes puts content on
ContentTopics(pubs) == {pubs[i].topic : i \in {j \in 1..Len(pubs) : ~pubs[j].payload.empty}}

\* the topics the entities of each slug are created on
CreationTopics ==
    [s \in {Str(SlugChars(k, g)) : k \in DOMAIN ContainerNames, g \in 1..MaxGen} |->
        UNION {ContentTopics(publish_discovery_for_container(
                                 ContainerInfo(k, g, "unknown"), AllOn)) :
                  <<k, g>> \in {p \in (DOMAIN ContainerNames) \X (1..MaxGen) :
                                   Str(SlugChars(p[1], p[2])) = s}}]

\* the topics the fleet-wide entities are created on
GlobalCreationTopics == ContentTopics(publish_docker_status(DEFAULT_GLOBAL_PREFERENCES))

\* C8: every publish of a pass has retain=true and qos=0; a clear is the
\* empty payload on a topic an entity is created on; every topic the
\* entities of a current or stale slug and the fleet-wide entities are
\* created on gets either its content or the clear, never both, and those of
\* a stale slug get the clear.
C8_ClearOnCreationTopics ==
    pass_ran =>
        LET stale == (DOMAIN pre_map) \ cur_slugs
            handled == cur_slugs \cup stale
        IN  /\ \A i \in 1..Len(pass_log) :
                  /\ pass_log[i].retain = TRUE
                  /\ pass_log[i].qos = 0
                  /\ pass_log[i].topic \in
                        GlobalCreationTopics \cup UNION {CreationTopics[s] : s \in handled}
            /\ \A s \in handled : \A t \in CreationTopics[s] : Filled(t) \/ Cleared(t)
            /\ \A t \in GlobalCreationTopics : Filled(t) \/ Cleared(t)
            /\ \A s \in stale : \A t \in CreationTopics[s] : Cleared(t)

\* a pass that clears a stale slug, a switched-off button and a switched-off
\* fleet-wide entity
C8_Witness ==
    /\ pass_ran
    /\ \E i \in 1..Len(pass_log) : pass_log[i].phase = "stale"
    /\ \E i \in 1..Len(pass_log) :
          pass_log[i].phase = "container" /\ pass_log[i].payload.empty
    /\ \E i \in 1..Len(pass_log) :
          pass_log[i].phase = "global" /\ pass_log[i].payload.empty

\* ------------------------------------------------------------------------
\* The update check

UpdateStates == {"unknown", "up_to_date", "update_available"}

\* the installed compare reference of an entry: the installed digest if the
\* image has one, else its id
CompareRef(e) == IF e.installed_digest # None THEN e.installed_digest ELSE e.installed_id

\* C9: every entry of collect_containers_info_for_updates and of
\* get_container_update_info has an update_state among unknown, up_to_date
\* and update_available, and an entry whose remote digest equals the
\* installed compare reference is up_to_date.
C9_ClassificationTotal ==
    \A i \in 1..Len(upd_out) :
        /\ upd_out[i].update_state \in UpdateStates
        /\ (upd_out[i].remote_digest # None
               /\ upd_out[i].remote_digest = CompareRef(upd_out[i]))
              => upd_out[i].update_state = "up_to_date"

\* a collect in which the registry gave one image the digest it is installed
\* with and the other, which has no digest, its image id
C9_Witness ==
    /\ upd_op = "collect_containers_info_for_updates"
    /\ \E i, j \in 1..Len(upd_out) :
          /\ \A k \in {i, j} :
                /\ upd_out[k].lookup = "answered"
                /\ upd_out[k].remote_digest = CompareRef(upd_out[k])
                /\ upd_out[k].update_state = "up_to_date"
          /\ upd_out[i].installed_digest # None
          /\ upd_out[j].installed_digest = None

\* C10: an entry whose registry lookup failed is unknown, whether or not the
\* image has a digest, and a collect returns an entry for every container.
C10_FailedLookupUnknown ==
    /\ \A i \in 1..Len(upd_out) :
          upd_out[i].lookup = "failed" => upd_out[i].update_state = "unknown"
    /\ upd_op = "collect_containers_info_for_updates"
          => Len(upd_out) = Len(EngineContainers)

\* C11: an entry whose registry lookup failed, in this query or in the one
\* that filled the cache it was served from, is up_to_date or unknown, never
\* update_available.
C11_FailedNeverUpdateAvailable ==
    \A i \in 1..Len(upd_out) :
        upd_out[i].lookup_failed => upd_out[i].update_state # "update_available"

\* an entry served from the cache of a failed lookup
C11_Witness ==
    \E i \in 1..Len(upd_out) :
        /\ upd_out[i].lookup = "cached"
        /\ upd_out[i].lookup_failed
        /\ upd_out[i].update_state \in {"up_to_date", "unknown"}

\* the frequency of a container as the preferences hold it, 60 when none is
\* set
ConfiguredFrequency(container_id) ==
    IF container_id \in DOMAIN update_preferences
    THEN update_preferences[container_id].frequency
    ELSE 60

\* C12: every entry of a query was served from the cache exactly when the
\* cache held its check reference no older than the container's own
\* frequency, and was fetched from the registry otherwise; that frequency is
\* the one set for the container, 60 when none was set, and lies between 5
\* and 1440 minutes.
C12_PerEntityFreshness ==
    \A i \in 1..Len(upd_out) :
        LET e == upd_out[i]
        IN  /\ e.frequency = ConfiguredFrequency(e.id)
            /\ e.frequency \in 5..1440
            /\ (e.lookup = "cached")
                  <=> (e.had_cache /\ e.cache_age <= e.frequency * 60)
            /\ (e.lookup \in {"failed", "answered"})
                  <=> (~e.had_cache \/ e.cache_age > e.frequency * 60)

\* one collect in which a container is served from the cache and another,
\* with a shorter frequency, fetches the same reference again
C12_Witness ==
    /\ upd_op = "collect_containers_info_for_updates"
    /\ \E i, j \in 1..Len(upd_out) :
          /\ upd_out[i].check_ref = upd_out[j].check_ref
          /\ upd_out[i].lookup = "cached"
          /\ upd_out[j].had_cache /\ upd_out[j].lookup = "answered"
          /\ upd_out[j].frequency < upd_out[i].frequency
          /\ upd_out[i].frequency = 1440

\* the release caches _fetch_github_release_info can find for acme/app
GithubCaches ==
    {[gh_cache |-> EmptyDict, gh_ts |-> EmptyDict]}
        \cup {[gh_cache |-> ("acme/app" :> [releases |-> l.releases, latest |-> l.latest]),
               gh_ts |-> ("acme/app" :> t)] :
                 l \in {[releases |-> "release", latest |-> ReleaseInfo],
                        [releases |-> "malformed", latest |-> NoReleaseInfo],
                        [releases |-> "empty", latest |-> NoReleaseInfo]},
                 t \in {now, now - github_cache_ttl}}

\* C13: the update_state that follows a _fetch_remote_info is the one that
\* follows it for the same container and the same registry answer whatever
\* api.github.com does and whatever the release cache holds.
C13_NotesNeverAffect ==
    \A k \in 1..Len(notes_out) :
        LET o == notes_out[k]
        IN  \A response \in GithubResponses, c \in GithubCaches :
                state_for(EngineContainers[o.container], o.single,
                          fetch_remote_info(o.answer, response, c.gh_cache, c.gh_ts).info)
                    = o.update_state

\* the release-notes lookup raised out of a fresh cache entry, for a
\* descriptor that says an update is available
C13_Witness ==
    \E k \in 1..Len(notes_out) :
        /\ notes_out[k].github = "raised"
        /\ notes_out[k].update_state = "update_available"

\* the overview_refresher threads that are alive
AliveRefreshers == {t \in Threads : refresher_pc[t] # "none"}

\* C14: a get_cached_overview that follows a completed refresh_overview_cache
\* returns the cache and does not query the engine.
C14_CachedAfterRefresh ==
    \A k \in 1..Len(fleet_out) :
        (fleet_out[k].op = "get_cached_overview" /\ fleet_out[k].refreshed)
            => /\ ~fleet_out[k].queried
               /\ fleet_out[k].value = fleet_out[k].before_cache

\* C15: a refresh_overview_cache whose engine query failed leaves
\* overview_cache and overview_cache_ts as it found them, and the refresher
\* thread that ran it stays alive.
C15_FailureLeavesCache ==
    \A k \in 1..Len(fleet_out) :
        (fleet_out[k].op \in {"overview_refresher", "refresh_overview_cache"}
            /\ fleet_out[k].raised)
            => /\ overview_cache = fleet_out[k].before_cache
               /\ overview_cache_ts = fleet_out[k].before_ts
               /\ fleet_out[k].op = "overview_refresher"
                     => \E t \in Threads : refresher_pc[t] = "sleep"

\* a refresher thread failed to refresh a cache that held a snapshot of an
\* earlier time
C15_Witness ==
    \E k \in 1..Len(fleet_out) :
        /\ fleet_out[k].op = "overview_refresher"
        /\ fleet_out[k].raised
        /\ ~engine_up
        /\ overview_cache # <<>>
        /\ overview_cache_ts # 0
        /\ overview_cache_ts < now

\* C16: a get_cached_overview made while the engine is unreachable does not
\* raise.
C16_ReadersNeverRaise ==
    \A k \in 1..Len(fleet_out) :
        (fleet_out[k].op = "get_cached_overview" /\ ~fleet_out[k].engine_up)
            => ~fleet_out[k].raised

\* C17: at most one overview_refresher thread is alive.
C17_SingleRefresher == Cardinality(AliveRefreshers) <= 1

\* the last step was a turn of the loop op in which nothing was raised
GoodTurn(op) ==
    \E k \in 1..Len(fleet_out) : fleet_out[k].op = op /\ ~fleet_out[k].raised

\* C18: under a fair scheduler every overview_refresher thread that has made
\* a refresh attempt comes to make another, and while a thread is alive the
\* cache comes to hold a snapshot a refresh has just taken unless the engine
\* comes to be unreachable; the mqtt_publisher thread likewise comes to make
\* another attempt after each, and with a client held comes to run a pass
\* unless the engine comes to be unreachable.
C18_LoopsNeverStop ==
    /\ \A t \in Threads :
          /\ (refresher_pc[t] = "sleep") ~> (refresher_pc[t] = "run")
          /\ (refresher_pc[t] = "run") ~> (refresher_pc[t] = "sleep")
    /\ (AliveRefreshers # {})
          ~> (~engine_up \/ (GoodTurn("overview_refresher")
                                /\ overview_cache = engine_fleet))
    /\ (publisher_pc = "sleep") ~> (publisher_pc = "run")
    /\ (publisher_pc = "run") ~> (publisher_pc = "sleep")
    /\ (publisher_pc # "none" /\ mqtt_client)
          ~> (~engine_up \/ (GoodTurn("mqtt_publisher") /\ pass_ran))

\* a refresher thread has just replaced a snapshot of the cache by another
\* while the publisher thread, which has run a pass, sleeps
C18_Witness ==
    /\ GoodTurn("overview_refresher")
    /\ refreshed
    /\ fleet_out[1].before_cache # <<>>
    /\ fleet_out[1].before_cache # overview_cache
    /\ publisher_pc = "sleep"
    /\ synced

\* the calls of the action executor that change the fleet
ExecutorMutations ==
    {"apply_simple_action", "remove_container", "recreate_container_with_latest_image"}

\* C19: the handling of a command that called the action executor to change
\* the fleet also refreshed the fleet cache and ran a pass.
C19_MutationsRefreshAndSync ==
    (\E i \in 1..Len(calls) : calls[i].op \in ExecutorMutations)
        => /\ \E j \in 1..Len(calls) : calls[j].op = "refresh_overview_cache"
           /\ pass_ran

\* the recreate calls of the last step, in the order they were made
RecreateCalls ==
    LET IsRecreate(c) == c.op = "recreate_container_with_latest_image"
    IN  SelectSeq(calls, IsRecreate)

\* the containers of a view a full_update_all is due on: those that are not
\* the application's own and have an update available
DueIn(view) ==
    LET Due(c) == /\ c.name \notin {ContainerNames[k] : k \in OwnByName}
                  /\ c.update_state = "update_available"
    IN  SelectSeq(view, Due)

\* C20: the recreate calls of a full_update_all are, in the order of the
\* collected view, one call for each of its containers that is not the
\* application's own and has update_state update_available, whatever came of
\* the earlier calls; no id is recreated twice, and the only other call is the
\* refresh of the cache after them.
C20_FullUpdateAllExact ==
    \A k \in 1..Len(collected) :
        LET due == DueIn(collected[k].view)
        IN  /\ Len(RecreateCalls) = Len(due)
            /\ \A i \in 1..Len(due) : RecreateCalls[i].id = due[i].id
            /\ \A i, j \in 1..Len(RecreateCalls) :
                  i # j => RecreateCalls[i].id # RecreateCalls[j].id
            /\ calls = RecreateCalls \o <<Call("refresh_overview_cache", "", "")>>

\* a full_update_all whose view held the application's own containers and
\* two others with an update; the first recreate failed and the second was
\* made and gave a new container
C20_Witness ==
    \E k \in 1..Len(collected) :
        /\ Len(RecreateCalls) = 2
        /\ Len(collected[k].view) = 5
        /\ collected[k].outcomes["db"] = "gone"
        /\ collected[k].outcomes["web"] = "new"
        /\ pass_ran

\* the last step handled the full_update_all command
FullUpdateAllHandled ==
    /\ last_msg \in MessageTopics
    /\ routed[last_msg].kind = "full_update_all"

C22_RejectedNeverReturns ==
    \A k \in 1..Len(write_out) :
        write_out[k].rejected # {}
            => /\ write_out[k].raised
               /\ write_out[k].cause \in write_out[k].rejected

\* C23: a recreate that failed at the pull, the create or the start raised,
\* the container it was called on is gone, and the failed call was its last:
\* nothing put the container back. A recreate that failed at resolving the
\* container made no call that changes the engine and left the engine's
\* containers as they were.
C23_NoRollback ==
    \A k \in 1..Len(write_out) :
        LET o == write_out[k]
        IN  o.op = "recreate_container_with_latest_image"
                => /\ o.cause \in {"pull", "create", "start"}
                        => /\ o.raised
                           /\ o.container_id \in o.before
                           /\ o.container_id \notin engine_containers
                           /\ o.made[Len(o.made)] = o.cause
                           /\ engine_containers \ o.before \subseteq
                                  (IF o.cause = "start" THEN {engine_created} ELSE {})
                   /\ o.cause = "get"
                        => /\ o.raised
                           /\ \A i \in 1..Len(o.made) : o.made[i] \notin EngineMutations
                           /\ engine_containers = o.before

\* a recreate of a container the engine had failed at the pull, and the
\* engine has a container less
C23_Witness ==
    \E k \in 1..Len(write_out) :
        /\ write_out[k].op = "recreate_container_with_latest_image"
        /\ write_out[k].cause = "pull"
        /\ write_out[k].container_id \in write_out[k].before
        /\ Cardinality(engine_containers) < Cardinality(write_out[k].before)

\* the records of the history that were made at a time
RecordsAt(timestamp) ==
    {i \in 1..Len(publish_history) : publish_history[i].timestamp = timestamp}

\* C24: a call of _publish made with a client held has left exactly one
\* record in the history, the newest, holding the topic, the payload, the
\* qos and the retain flag of the call, whether the transport raised or not;
\* a call made without a client left none.
C24_EveryAttemptRecorded ==
    \A k \in 1..Len(history_out) :
        LET o == history_out[k]
        IN  o.op = "_publish"
                => IF o.client
                   THEN /\ Cardinality(RecordsAt(o.at)) = 1
                        /\ publish_history[Len(publish_history)] =
                              [topic |-> o.pub.topic, payload |-> o.pub.payload,
                               qos |-> o.pub.qos, retain |-> o.pub.retain,
                               timestamp |-> o.at]
                   ELSE RecordsAt(o.at) = {}

\* a call of _publish whose transport raised, recorded as the newest of more
\* than one record
C24_Witness ==
    \E k \in 1..Len(history_out) :
        /\ history_out[k].op = "_publish"
        /\ history_out[k].client
        /\ history_out[k].raised
        /\ Len(publish_history) > 1
        /\ publish_history[Len(publish_history)].timestamp = history_out[k].at

\* C25: the history never holds more than 200 records and holds them in the
\* order they were published; a step that changes it appends one record,
\* and when it held 200 drops the oldest and no other; get_publish_history
\* with a limit above zero returns the newest min(limit, size) records in
\* that order and leaves the history as it was.
C25_BoundedRing ==
    /\ [](/\ Len(publish_history) <= publish_history_maxlen
          /\ \A i, j \in 1..Len(publish_history) :
                i < j => publish_history[i].timestamp < publish_history[j].timestamp)
    /\ [][/\ publish_history' # publish_history
              => /\ Len(publish_history') >= 1
                 /\ LET n == Len(publish_history')
                        kept == SubSeq(publish_history', 1, n - 1)
                    IN  IF Len(publish_history) < publish_history_maxlen
                        THEN kept = publish_history
                        ELSE kept = Tail(publish_history)
           /\ \A k \in 1..Len(history_out') :
                 LET o == history_out'[k]
                     size == Len(publish_history)
                     count == IF o.limit < size THEN o.limit ELSE size
                 IN  (o.op = "get_publish_history" /\ history_out' # history_out)
                         => /\ publish_history' = publish_history
                            /\ o.limit > 0
                                  => /\ Len(o.value) = count
                                     /\ \A i \in 1..count :
                                           o.value[i] = publish_history[size - count + i]
          ]_vars

\* the history is full and has dropped its oldest records, and a reader has
\* just asked for fewer records than it holds
C25_Witness ==
    /\ Len(publish_history) = publish_history_maxlen
    /\ publish_history[1].timestamp > 1
    /\ \E k \in 1..Len(history_out) :
          /\ history_out[k].op = "get_publish_history"
          /\ history_out[k].limit = 2
          /\ Len(history_out[k].value) = 2

\* a record with a boolean state and a boolean for each of the six actions
FullRecord(r) ==
    /\ DOMAIN r = {"state", "actions"}
    /\ r.state \in BOOLEAN
    /\ DOMAIN r.actions = AVAILABLE_ACTIONS
    /\ \A a \in AVAILABLE_ACTIONS : r.actions[a] \in BOOLEAN

\* C26: get_with_defaults and build_map_for return, for every id, and
\* set_preferences returns, for every input, a record with a boolean state
\* and exactly the six actions, each a boolean: an action the input or the
\* stored record does not name is true, a key outside the six is dropped.
\* The reads leave the stored keys and the document as they were, and
\* get_with_defaults of an id just set returns what set_preferences returned.
C26_FullRecords ==
    \A k \in 1..Len(pref_out) :
        LET o == pref_out[k]
        IN  /\ o.op = "get_with_defaults"
                => /\ FullRecord(o.value)
                   /\ o.args.stable_id \notin DOMAIN o.before_data
                        => /\ o.value.state
                           /\ \A a \in AVAILABLE_ACTIONS : o.value.actions[a]
                   /\ DOMAIN pref_data = DOMAIN o.before_data
                   /\ pref_doc = o.before_doc
                   /\ ~o.saved
            /\ o.op = "build_map_for"
                => /\ DOMAIN o.value = o.args.stable_ids
                   /\ \A sid \in o.args.stable_ids : FullRecord(o.value[sid])
                   /\ DOMAIN pref_data = DOMAIN o.before_data
                   /\ pref_doc = o.before_doc
                   /\ ~o.saved
            /\ o.op = "set_preferences"
                => /\ FullRecord(o.value)
                   /\ o.value.state = o.args.input.state
                   /\ \A a \in AVAILABLE_ACTIONS :
                         o.value.actions[a] =
                             (IF a \in DOMAIN o.args.input.actions
                              THEN o.args.input.actions[a] ELSE TRUE)
                   /\ get_with_defaults(pref_data, o.args.stable_id) = o.value

\* a read of an id the store does not hold, the store holding the record of
\* another id that was set with two actions off
C26_Witness ==
    \E k \in 1..Len(pref_out) :
        /\ pref_out[k].op = "get_with_defaults"
        /\ pref_out[k].args.stable_id \notin DOMAIN pref_data
        /\ \E sid \in DOMAIN pref_data :
              /\ ~pref_data[sid].actions["delete"]
              /\ pref_data[sid].actions["start"]

\* C27: after prune(valid_ids) the stored keys are the keys before that are
\* in valid_ids, the records kept and the global preferences are as they
\* were, and the document was written exactly when an id was removed.
C27_PruneExact ==
    \A k \in 1..Len(pref_out) :
        LET o == pref_out[k]
        IN  o.op = "prune"
                => /\ DOMAIN pref_data = (DOMAIN o.before_data) \cap o.args.valid_ids
                   /\ DOMAIN pref_data \subseteq o.args.valid_ids
                   /\ \A sid \in DOMAIN pref_data : pref_data[sid] = o.before_data[sid]
                   /\ pref_global = o.before_global
                   /\ o.saved <=> ~((DOMAIN o.before_data) \subseteq o.args.valid_ids)
                   /\ IF o.saved THEN pref_doc = <<save(pref_data, pref_global)>>
                      ELSE pref_doc = o.before_doc

\* a prune that removed one id of two
C27_Witness ==
    \E k \in 1..Len(pref_out) :
        /\ pref_out[k].op = "prune"
        /\ Cardinality(DOMAIN pref_out[k].before_data) = 2
        /\ Cardinality(DOMAIN pref_data) = 1
        /\ pref_out[k].saved

\* C28: a store constructed from the document the last _save wrote holds the
\* entries and the global preferences the store held before.
C28_RestartKeepsStore ==
    \A k \in 1..Len(pref_out) :
        (pref_out[k].op = "__init__" /\ pref_doc # <<>>)
            => /\ pref_data = pref_doc[1].containers
               /\ pref_global = pref_doc[1].global

\* C29: what build_stable_id returns holds no upper-case letter, holds only
\* letters, digits and "_", holds no "__" and neither starts nor ends with
\* "_".
C29_StableIdWellFormed ==
    \A k \in 1..Len(stable_id_out) :
        LET v == stable_id_out[k].value
        IN  /\ \A i \in 1..Len(v) : v[i] \notin UpperLetters
            /\ \A i \in 1..Len(v) : IsAlnum(v[i]) \/ v[i] = "_"
            /\ ~HasDouble(v)
            /\ v # <<>> => v[1] # "_" /\ v[Len(v)] # "_"

\* the last remove_network was called on a network the engine had
NetworkRemovals ==
    {k \in 1..Len(network_out) : network_out[k].network_id \in network_out[k].before}

\* C30 as stated: a remove_network of a network named, whatever the case of
\* its letters, bridge, host or none raised ValueError without the engine's
\* remove being called; any other network is gone.
C30_OthersAlwaysRemoved ==
    \A k \in NetworkRemovals :
        LET o == network_out[k]
        IN  IF Lower(NetworkNames[o.network_id]) \in SYSTEM_NETWORKS
            THEN /\ o.raised = "ValueError"
                 /\ \A i \in 1..Len(o.made) : o.made[i] # "remove"
                 /\ o.network_id \in engine_networks
            ELSE o.network_id \notin engine_networks

\* C30: a remove_network of a network named, whatever the case of its
\* letters, bridge, host or none raised ValueError without the engine's
\* remove being called, and the network is still there; for any other network
\* the engine's remove was called, and the network is gone unless the engine
\* rejected the removal.
C30_ProtectedNetworks ==
    \A k \in NetworkRemovals :
        LET o == network_out[k]
        IN  IF Lower(NetworkNames[o.network_id]) \in SYSTEM_NETWORKS
            THEN /\ o.raised = "ValueError"
                 /\ \A i \in 1..Len(o.made) : o.made[i] # "remove"
                 /\ o.network_id \in engine_networks
            ELSE /\ o.made[Len(o.made)] = "remove"
                 /\ o.raised # "ValueError"
                 /\ o.network_id \in engine_networks <=> o.rejects

\* a remove_network of the network Host, refused, after one of another
\* network that the engine removed
C30_Witness ==
    \E k \in NetworkRemovals :
        /\ NetworkNames[network_out[k].network_id] = <<"H","o","s","t">>
        /\ network_out[k].raised = "ValueError"
        /\ engine_networks # DOMAIN NetworkNames

----------------------------------------------------------------------------
\* the string the parts d, h and m of a number of seconds are to give
ExpectedTimedelta(s0) ==
    LET s == IF s0 < 0 THEN 0 ELSE s0
        d == s \div 86400
        h == (s % 86400) \div 3600
        m == (s % 3600) \div 60
        dg == IF d > 0 THEN ToString(d) \o "g" ELSE ""
        hh == IF h > 0 THEN ToString(h) \o "h" ELSE ""
        mm == IF m > 0 \/ (d = 0 /\ h = 0) THEN ToString(m) \o "m" ELSE ""
        sep1 == IF dg # "" /\ (hh # "" \/ mm # "") THEN " " ELSE ""
        sep2 == IF hh # "" /\ mm # "" THEN " " ELSE ""
    IN  dg \o sep1 \o hh \o sep2 \o mm

\* C31: format_timedelta of a whole number of seconds s, a negative one taken
\* as 0, with d = s div 86400, h = (s mod 86400) div 3600 and
\* m = (s mod 3600) div 60, is "<d>g" if d > 0, then "<h>h" if h > 0, then
\* "<m>m" if m > 0 or both d and h are 0, joined by single spaces; 60 gives
\* "1m", 3600 gives "1h", 3661 gives "1h 1m" and 0 gives "0m".
C31_FormatTimedelta ==
    /\ uptime_out # <<>> =>
          /\ uptime_out[1].value = ExpectedTimedelta(uptime_out[1].delta_seconds)
          /\ uptime_out[1].delta_seconds = 60 => uptime_out[1].value = "1m"
          /\ uptime_out[1].delta_seconds = 3600 => uptime_out[1].value = "1h"
          /\ uptime_out[1].delta_seconds = 3661 => uptime_out[1].value = "1h 1m"
          /\ uptime_out[1].delta_seconds = 0 => uptime_out[1].value = "0m"
          /\ uptime_out[1].delta_seconds < 0 => uptime_out[1].value = "0m"

\* a call with one day, one hour and one minute has returned all three parts
C31_Witness ==
    /\ uptime_out # <<>>
    /\ uptime_out[1].delta_seconds = 90061
    /\ uptime_out[1].value = "1g 1h 1m"

\* ------------------------------------------------------------------------
\* the config topics of a slug's entities: the sensor's and the six buttons'
ConfigTopics(slug) ==
    {discovery_prefix \o "/sensor/" \o node_id \o "/" \o slug \o "_status/config"}
        \cup {ButtonTopic(slug, a) : a \in AVAILABLE_ACTIONS}

\* the slugs of the containers of the model
ModelSlugs == {slug_of[p] : p \in DOMAIN slug_of}

\* C32: once every pass has returned, also after a request's pass went step
\* by step between the steps of the periodic pass over another view, every
\* slug with a non-empty retained sensor or button config on the broker is a
\* key of the slug map.
C32_NoOrphanUnderOverlap ==
    (\A t \in PassThreads : pass_pc[t].pc = "idle") =>
        \A slug \in ModelSlugs :
            (ConfigTopics(slug) \cap DOMAIN broker_retained # {}) =>
                slug \in DOMAIN container_slug_map

\* C33: after a pass that ran alone with a client held and no publish
\* raising, the slug map is the map built in that pass: its keys are the
\* slugs of the entries of the view that are not the self-container, each
\* slug maps to the engine id of its entry, and no key of an earlier pass is
\* left.
C33_MapReplaced ==
    (pass_ran /\ pass_view # <<>>) =>
        LET view == pass_view[1]
            kept == {i \in 1..Len(view) : ~is_self_container(view[i].name)}
            slug(i) == Str(slugify_container(view[i].name, view[i].short_id))
        IN  /\ DOMAIN container_slug_map = {slug(i) : i \in kept}
            /\ \A i \in kept : container_slug_map[slug(i)] = view[i].id
            /\ \A s \in DOMAIN pre_map :
                   s \notin {slug(i) : i \in kept} => s \notin DOMAIN container_slug_map

\* a pass over two containers found the map holding a slug of an earlier
\* pass that its view does not have
C33_Witness ==
    /\ pass_ran
    /\ pass_view # <<>>
    /\ Cardinality(cur_slugs) = 2
    /\ (DOMAIN pre_map) \ cur_slugs # {}
    /\ Cardinality(DOMAIN container_slug_map) = 2

\* the topics of the fleet-wide entities
FleetTopics ==
    EngineTopics \cup UpdatesTopics \cup DeleteUnusedImagesTopics \cup FullUpdateAllTopics

\* the records of the last pass on the topics of the slugs given
RecordsOfSlugs(slugs) ==
    {i \in 1..Len(pass_log) : \E s \in slugs : pass_log[i].topic \in EntityTopics(s)}

\* C34: in the publish history of one pass every publish of a fleet-wide
\* entity comes before every publish of a container of the view, and every
\* stale-clear publish comes after the last publish of the last current
\* container.
C34_PassOrder ==
    pass_ran =>
        LET fleet == {i \in 1..Len(pass_log) : pass_log[i].topic \in FleetTopics}
            current == RecordsOfSlugs(cur_slugs)
            stale == RecordsOfSlugs((DOMAIN pre_map) \ cur_slugs)
        IN  /\ \A i \in fleet, j \in current : i < j
            /\ \A i \in current, j \in stale : i < j
            /\ \A i \in fleet, j \in stale : i < j
            /\ fleet \cup current \cup stale = 1..Len(pass_log)

\* a pass that published the fleet-wide entities, two containers and the
\* clearing of a slug that had left the view
C34_Witness ==
    /\ pass_ran
    /\ Cardinality(cur_slugs) = 2
    /\ RecordsOfSlugs((DOMAIN pre_map) \ cur_slugs) # {}
    /\ RecordsOfSlugs(cur_slugs) # {}
    /\ \E i \in 1..Len(pass_log) : pass_log[i].topic \in FleetTopics

\* the place of an engine call among the calls a recreate made, 0 if it was
\* not made
MadeAt(o, step) ==
    IF \E i \in 1..Len(o.made) : o.made[i] = step
    THEN CHOOSE i \in 1..Len(o.made) : o.made[i] = step
    ELSE 0

\* C35: a recreate makes its engine calls in the order resolve and inspect,
\* remove, untag, pull, create, start: the pull is attempted only after the
\* old container was removed, the create only after the pull succeeded, the
\* start only after the create succeeded; a failed untag does not end the
\* operation, and a failed remove, pull, create or start ends it with no
\* later call made.
C35_RecreateOrder ==
    \A k \in 1..Len(write_out) :
        LET o == write_out[k]
            order == <<"get", "inspect", "remove", "untag", "pull", "create", "start">>
            Made(step) == MadeAt(o, step) > 0
            Ok(step) == Made(step) /\ step \notin o.rejected
        IN  o.op = "recreate_container_with_latest_image" =>
                /\ \A i, j \in 1..Len(order) :
                       (i < j /\ Made(order[i]) /\ Made(order[j]))
                           => MadeAt(o, order[i]) < MadeAt(o, order[j])
                /\ \A i, j \in 1..Len(o.made) : o.made[i] = o.made[j] => i = j
                /\ Made("remove") => Ok("get") /\ Ok("inspect")
                /\ Made("pull") => Ok("remove") /\ Made("untag")
                /\ Made("create") => Ok("pull")
                /\ Made("start") => Ok("create")
                /\ "untag" \in o.rejected => Made("pull") /\ o.cause # "untag"
                /\ \A step \in {"remove", "pull", "create", "start"} :
                       step \in o.rejected
                           => /\ o.raised
                              /\ o.cause = step
                              /\ MadeAt(o, step) = Len(o.made)

\* a recreate whose untag the engine rejected went on to the start, and one
\* is seen only if nothing else failed
C35_Witness ==
    \E k \in 1..Len(write_out) :
        /\ write_out[k].op = "recreate_container_with_latest_image"
        /\ "untag" \in write_out[k].rejected
        /\ MadeAt(write_out[k], "start") > 0
        /\ ~write_out[k].raised

\* the store and its document after the calls of the threads given, made one
\* after the other in that order on a store with no entry and no document
RECURSIVE Sequential(_, _)
Sequential(order, n) ==
    IF n = 0
    THEN [data |-> EmptyDict, global |-> DEFAULT_GLOBAL_PREFERENCES, doc |-> <<>>]
    ELSE LET before == Sequential(order, n - 1)
             call == pref_thread[order[n]].call
         IN  IF call.op = "set_preferences"
             THEN LET r == set_preferences(before.data, before.global, call.stable_id,
                                           call.state_enabled, call.actions)
                  IN  [data |-> r.data, global |-> before.global, doc |-> r.doc]
             ELSE IF call.op = "set_global_preferences"
             THEN LET r == set_global_preferences(before.data, call.preferences)
                  IN  [data |-> before.data, global |-> r.global, doc |-> r.doc]
             ELSE LET r == prune(before.data, call.valid_ids)
                  IN  [data |-> r.data, global |-> before.global,
                       doc |-> IF r.saved THEN <<save(r.data, before.global)>>
                               ELSE before.doc]

\* the threads whose call has returned
ReturnedThreads == {t \in LockThreads : pref_thread[t].pc = "done"}

\* C36: whenever every call that was started has returned, whatever way the
\* steps of the threads were interleaved, the store in memory is what the
\* calls give when made one after the other in some order, and so is the
\* document, which holds the store as it is in memory.
C36_Serialized ==
    (\A t \in LockThreads : pref_thread[t].pc \in {"idle", "done"}) =>
        /\ \E order \in Orders(ReturnedThreads) :
               LET r == Sequential(order, Len(order))
               IN  /\ pref_data = r.data
                   /\ pref_global = r.global
                   /\ pref_doc = r.doc
        /\ pref_doc # <<>> => pref_doc[1] = save(pref_data, pref_global)

\* the calls of three threads have returned, a set_preferences, a
\* set_global_preferences that changed a flag and a prune that removed the
\* entry the set_preferences had stored
C36_Witness ==
    /\ ReturnedThreads = LockThreads
    /\ {pref_thread[t].call.op : t \in LockThreads}
           = {"set_preferences", "set_global_preferences", "prune"}
    /\ pref_data = EmptyDict
    /\ pref_global # DEFAULT_GLOBAL_PREFERENCES
    /\ pref_doc # <<>>

\* a step never puts into the cache a snapshot of an earlier query than the
\* one the cache came from
CacheNeverOlder == [][cache_query'.query >= cache_query.query]_vars

\* C37: with the refresher and a request inside refresh_overview_cache at
\* once, the snapshot in overview_cache is never replaced by one whose engine
\* query was made before the query of the snapshot it replaces, and
\* overview_cache_ts is never later than the time of the query the stored
\* snapshot came from.
C37_CacheNeverRegresses ==
    /\ CacheNeverOlder
    /\ [](overview_cache_ts <= cache_query.queried_at)

\* C38: for every configured base topic, one of several segments included,
\* the command topic advertised for a slug and one of the six actions is
\* accepted by _on_message and routed to that slug and action, and each of
\* the two fleet-wide command topics is routed to its handler.
C38_CommandRoundTrip ==
    topic_out # <<>> =>
        LET o == topic_out[1]
        IN  /\ o.routed.slug = o.slug
            /\ o.routed.action = o.action
            /\ o.routed.kind = (IF o.slug = "docker" THEN o.action ELSE "container")

\* C39: two containers of a view whose (stack, name) pairs differ never get
\* the same stable_id.
C39_StableIdInjective ==
    (/\ stable_pair_out # <<>>
     /\ <<stable_pair_out[1].stack, stable_pair_out[1].name>>
            # <<stable_pair_out[2].stack, stable_pair_out[2].name>>)
        => stable_pair_out[1].value # stable_pair_out[2].value


\* ------------------------------------------------------------------------
\* C40: mqtt_client is assigned a client at most once, and only by a setup()
\* whose connect succeeds; once setup() has left it None it stays None, and
\* every later pass, periodic or on a request, publishes nothing, appends
\* nothing to publish_history and leaves container_slug_map as it is, whether
\* or not the broker has become reachable since
C40_ClientOnlyFromSetup ==
    [][/\ mqtt_client' # mqtt_client =>
              /\ ~setup_done
              /\ setup_done'
              /\ mqtt_client'
              /\ broker_reachable
              /\ mqtt_config'[1].library
              /\ mqtt_config'[1].broker
       /\ (setup_done /\ ~mqtt_client) =>
              /\ ~mqtt_client'
              /\ ~pass_ran'
              /\ pass_log' = <<>>
              /\ publish_history' = publish_history
              /\ container_slug_map' = container_slug_map]_vars

\* setup() tried a named broker that was not reachable, and the last of the
\* passes after it ran on the periodic thread with the broker reachable, was
\* handed a view with containers and left no record and no slug
C40_Witness ==
    /\ setup_done
    /\ mqtt_config[1].library
    /\ mqtt_config[1].broker
    /\ ~mqtt_client
    /\ pass_count = MaxPasses
    /\ connect_out[1].op = "pass"
    /\ connect_out[1].thread = "periodic"
    /\ connect_out[1].reachable
    /\ pass_view[1] # <<>>
    /\ pass_log = <<>>
    /\ publish_history = <<>>
    /\ container_slug_map = EmptyDict

====
